---- MODULE Spec2Model ----
(***************************************************************************)
(* The reconciliation core of the fetchfy operator: the Gateway            *)
(* Reconciler (internal/controller/gateway_controller.go), the Service     *)
(* Watcher (pkg/services/watcher.go), the MCP Registry                     *)
(* (pkg/mcp/registry.go) and the MCP Server lifecycle (pkg/mcp/server.go,  *)
(* found at the end of src/mkdocs.yml).                                    *)
(*                                                                         *)
(* The handlers are written as operators over a record w of the whole      *)
(* state (the API server's store and the operator's memory), one operator  *)
(* per function of the source, so that a handler is the composition of the *)
(* functions it calls.  An action of the state machine applies one         *)
(* handler; its inputs (which store calls fail) are drawn with \E.         *)
(***************************************************************************)
EXTENDS Integers, Sequences, FiniteSets, TLC

(***************************************************************************)
(* Bounds of the model.                                                    *)
(***************************************************************************)
\* the clock (time.Now(), in seconds) runs from 0 to MaxClock
MaxClock == 1
\* metadata.generation of a Gateway runs from 1 to MaxGeneration
MaxGeneration == 2
MaxVersion == 3

(***************************************************************************)
(* Program constants.                                                      *)
(***************************************************************************)
gatewayFinalizer == "fetchfy.ai/finalizer"
conditionTypeReady == "Ready"
conditionTypeAvailable == "Available"
reasonReady == "GatewayReady"
reasonConfigured == "GatewayConfigured"
reasonServerError == "ServerError"
reasonConfigError == "ConfigurationError"
ConditionTrue == "True"
ConditionFalse == "False"
MCPEnabledLabel == "mcp-enabled"
MCPTypeAnnotation == "mcp.fetchfy.ai/type"
MCPEndpointAnnotation == "mcp.fetchfy.ai/endpoint"
ServiceTypeTool == "tool"
ServiceTypeAgent == "agent"
ServiceStatusAvailable == "Available"
ServiceStatusPending == "Pending"
ServiceTypeClusterIP == "ClusterIP"
\* the requeue delays of Reconcile, in seconds
RequeueAfterError == 30
RequeueAfterStatusError == 60
RequeueAfterSuccess == 300

(***************************************************************************)
(* Values.                                                                 *)
(***************************************************************************)
\* a key that a Go map or a Kubernetes object does not have
Absent == "<absent>"
\* the nil error
Nil == "<nil>"
\* a nil annotations map
NilMap == [nil |-> TRUE]
\* the store has no object under the key (errors.IsNotFound)
NotFound == [notFound |-> TRUE]
\* r.MCPServers has no entry under the key
NoServer == [noServer |-> TRUE]
\* r.services has no entry under the key
NoEntry == [noEntry |-> TRUE]
\* a Server's httpServer field before the first Start; listenAndServe is the
\* position of the goroutine Start spawns: "none" before the first Start,
\* "starting" until httpServer.ListenAndServe has bound the port, "serving"
\* while it accepts, "failed" once it returned an error that was logged,
\* "closed" once it returned http.ErrServerClosed
NoHTTPServer == [noHTTPServer |-> TRUE]

NamespacedName(ns, name) == [Namespace |-> ns, Name |-> name]
GatewayKeys == {NamespacedName("ns", "g1"), NamespacedName("ns", "g2")}
ServiceKeys == {NamespacedName("ns", "s1"), NamespacedName("ns", "s2")}

LabelKeys == {MCPEnabledLabel, "app"}
Labels(enabled, app) == [k \in LabelKeys |-> IF k = MCPEnabledLabel THEN enabled ELSE app]
Annotations(type, endpoint) == [k \in {MCPTypeAnnotation, MCPEndpointAnnotation} |-> IF k = MCPTypeAnnotation THEN type ELSE endpoint]

\* a corev1.Service: its labels, annotations, spec.type and number of spec.ports
Service(key, labels, annotations, type, ports) == [Namespace |-> key.Namespace, Name |-> key.Name, Labels |-> labels, Annotations |-> annotations, Type |-> type, Ports |-> ports]

\* the shapes a backend service takes in the model
ServiceShapes(key) ==
  { Service(key, Labels("true", "a"), Annotations(ServiceTypeAgent, Absent), ServiceTypeClusterIP, 1),
    Service(key, Labels("true", "a"), NilMap, ServiceTypeClusterIP, 1),
    Service(key, Labels(Absent, "a"), Annotations(ServiceTypeAgent, Absent), ServiceTypeClusterIP, 1) }

\* a metav1.LabelSelector
LabelSelector(matchLabels, matchExpressions) == [MatchLabels |-> matchLabels, MatchExpressions |-> matchExpressions]
SelectorEnabled == LabelSelector({<<MCPEnabledLabel, "true">>}, {})
SelectorNone == LabelSelector({<<"app", "none">>}, {})
SelectorBad == LabelSelector({}, {[Key |-> "app", Operator |-> "In", Values |-> {}]})

\* a GatewaySpec
GatewaySpec(port, selector, tls, secret) == [MCPPort |-> port, ServiceSelector |-> selector, EnableTLS |-> tls, TLSSecretRef |-> secret]
GatewaySpecs ==
  { GatewaySpec(8080, SelectorEnabled, FALSE, ""),
    GatewaySpec(8081, SelectorNone, FALSE, ""),
    GatewaySpec(8080, SelectorBad, FALSE, ""),
    GatewaySpec(8080, SelectorEnabled, TRUE, "") }

\* the zero GatewayStatus
EmptyStatus == [Conditions |-> <<>>, MCPServices |-> {}, Address |-> ""]

\* a Gateway object as the store holds it
Gateway(key, spec) == [Namespace |-> key.Namespace, Name |-> key.Name, Generation |-> 1, DeletionTimestamp |-> FALSE, Finalizers |-> {}, Spec |-> spec, Status |-> EmptyStatus]

KeyOf(obj) == NamespacedName(obj.Namespace, obj.Name)

(***************************************************************************)
(* pkg/mcp/registry.go                                                     *)
(***************************************************************************)
\* a default endpoint without the namespace
DefaultEndpoint_NameOnly(svc) == <<"/mcp/", svc.Name>>

\* fmt.Sprintf("/mcp/%s/%s", svc.Namespace, svc.Name)
DefaultEndpoint(svc) == <<"/mcp/", svc.Namespace, "/", svc.Name>>

\* RegisterService that reports every service available
RegisterService_AlwaysAvailable(services, svc, serviceType, t) ==
  LET key == NamespacedName(svc.Namespace, svc.Name)
      endpoint == IF svc.Annotations[MCPEndpointAnnotation] # Absent THEN <<svc.Annotations[MCPEndpointAnnotation]>> ELSE DefaultEndpoint(svc)
      mcpService == [Name |-> svc.Name, Namespace |-> svc.Namespace, Type |-> serviceType, Endpoint |-> endpoint, Status |-> ServiceStatusAvailable, UpdatedAt |-> t]
  IN IF svc.Annotations = NilMap
     THEN [services |-> services, err |-> "has no annotations"]
     ELSE [services |-> [services EXCEPT ![key] = mcpService], err |-> Nil]

\* RegisterService that keeps the role of the entry it finds
RegisterService_KeepRole(services, svc, serviceType, t) ==
  LET key == NamespacedName(svc.Namespace, svc.Name)
      endpoint == IF svc.Annotations[MCPEndpointAnnotation] # Absent THEN <<svc.Annotations[MCPEndpointAnnotation]>> ELSE DefaultEndpoint(svc)
      status == IF svc.Type = ServiceTypeClusterIP /\ svc.Ports > 0 THEN ServiceStatusAvailable ELSE ServiceStatusPending
      role == IF services[key] # NoEntry THEN services[key].Type ELSE serviceType
      mcpService == [Name |-> svc.Name, Namespace |-> svc.Namespace, Type |-> role, Endpoint |-> endpoint, Status |-> status, UpdatedAt |-> t]
  IN IF svc.Annotations = NilMap
     THEN [services |-> services, err |-> "has no annotations"]
     ELSE [services |-> [services EXCEPT ![key] = mcpService], err |-> Nil]

\* RegisterService on the map services, at time t: the new map and the error
RegisterService(services, svc, serviceType, t) ==
  LET key == NamespacedName(svc.Namespace, svc.Name)
      endpoint == IF svc.Annotations[MCPEndpointAnnotation] # Absent THEN <<svc.Annotations[MCPEndpointAnnotation]>> ELSE DefaultEndpoint(svc)
      status == IF svc.Type = ServiceTypeClusterIP /\ svc.Ports > 0 THEN ServiceStatusAvailable ELSE ServiceStatusPending
      mcpService == [Name |-> svc.Name, Namespace |-> svc.Namespace, Type |-> serviceType, Endpoint |-> endpoint, Status |-> status, UpdatedAt |-> t]
  IN IF svc.Annotations = NilMap
     THEN [services |-> services, err |-> "has no annotations"]
     ELSE [services |-> [services EXCEPT ![key] = mcpService], err |-> Nil]

\* DeregisterService that reports a removal whatever it found
DeregisterService_ReportsTrue(services, name) ==
  [services |-> [services EXCEPT ![name] = NoEntry], removed |-> TRUE]

\* DeregisterService: the new map and whether an entry was removed
DeregisterService(services, name) ==
  IF services[name] # NoEntry
  THEN [services |-> [services EXCEPT ![name] = NoEntry], removed |-> TRUE]
  ELSE [services |-> services, removed |-> FALSE]

\* GetService
GetService(services, name) == [svc |-> services[name], exists |-> services[name] # NoEntry]

\* ListServices: every entry (the order of a Go map iteration is not defined: a set)
ListServices(services) == {services[k] : k \in {x \in DOMAIN services : services[x] # NoEntry}}

\* the MCPServiceInfo of an entry
MCPServiceInfo(svc) == [Name |-> svc.Name, Namespace |-> svc.Namespace, Type |-> svc.Type, Endpoint |-> svc.Endpoint, Status |-> svc.Status, LastUpdated |-> svc.UpdatedAt]

\* UpdateRegistryStatus that adds the entries to the list the object holds
UpdateRegistryStatus_Merge(services, gateway) ==
  [gateway EXCEPT !.Status.MCPServices = @ \cup {MCPServiceInfo(e) : e \in ListServices(services)}]

\* UpdateRegistryStatus: the gateway object with its status list replaced
UpdateRegistryStatus(services, gateway) ==
  [gateway EXCEPT !.Status.MCPServices = {MCPServiceInfo(e) : e \in ListServices(services)}]

(***************************************************************************)
(* pkg/mcp/server.go (the listener of one Gateway)                         *)
(***************************************************************************)
\* fmt.Sprintf(":%d", port)
Addr(port) == <<":", ToString(port)>>

\* NewServer
NewServer == [started |-> FALSE, port |-> 0, enableTLS |-> FALSE, tlsSecretName |-> "", gatewayRef |-> NamespacedName("", ""), httpServer |-> NoHTTPServer, listenAndServe |-> "none"]

\* Configure that binds a running listener to the new port
Configure_Rebinds(s, gateway) ==
  [s EXCEPT !.port = gateway.Spec.MCPPort, !.enableTLS = gateway.Spec.EnableTLS, !.tlsSecretName = gateway.Spec.TLSSecretRef, !.gatewayRef = KeyOf(gateway),
            !.httpServer = IF s.started THEN [Addr |-> Addr(gateway.Spec.MCPPort)] ELSE @]

\* Configure: the settings of the gateway, whatever the server is doing
Configure(s, gateway) ==
  [s EXCEPT !.port = gateway.Spec.MCPPort, !.enableTLS = gateway.Spec.EnableTLS, !.tlsSecretName = gateway.Spec.TLSSecretRef, !.gatewayRef = KeyOf(gateway)]

\* Start without the check of the started flag
Start_NoGuard(s) ==
  [s |-> [s EXCEPT !.httpServer = [Addr |-> Addr(s.port)], !.listenAndServe = "starting", !.started = TRUE], err |-> Nil]

\* Start: the server and the error
Start(s) ==
  IF s.started
  THEN [s |-> s, err |-> "server already started"]
  ELSE [s |-> [s EXCEPT !.httpServer = [Addr |-> Addr(s.port)], !.listenAndServe = "starting", !.started = TRUE], err |-> Nil]

\* Stop that leaves the started flag set
Stop_KeepsRunning(s, shutdownErr) ==
  IF ~s.started \/ s.httpServer = NoHTTPServer
  THEN [s |-> s, err |-> Nil]
  ELSE [s |-> s, err |-> shutdownErr]

\* Stop: the server and the error, shutdownErr being what
\* httpServer.Shutdown returns
Stop(s, shutdownErr) ==
  IF ~s.started \/ s.httpServer = NoHTTPServer
  THEN [s |-> s, err |-> Nil]
  ELSE [s |-> [s EXCEPT !.started = FALSE, !.listenAndServe = IF @ \in {"starting", "serving"} THEN "closed" ELSE @], err |-> shutdownErr]

\* IsRunning
IsRunning(s) == s.started

\* the goroutine of Start: httpServer.ListenAndServe has bound the port
serveBound(s) == [s EXCEPT !.listenAndServe = "serving"]

\* a goroutine that clears the started flag when ListenAndServe fails
serveFailed_ClearsStarted(s) == [s EXCEPT !.listenAndServe = "failed", !.started = FALSE]

\* the goroutine of Start: httpServer.ListenAndServe returned an error other
\* than http.ErrServerClosed, which is logged
serveFailed(s) == [s EXCEPT !.listenAndServe = "failed"]

(***************************************************************************)
(* The API server's store, as the client calls of the handlers see it.     *)
(* A write carries the object as it was fetched: the store refuses it when *)
(* the stored object has changed since (optimistic concurrency).           *)
(***************************************************************************)
\* r.Update(ctx, gateway): metadata and spec are written, the status is not
\* (the status is a subresource); an object marked for deletion leaves the
\* store with its last finalizer
StoreUpdate(w, fetched, gateway, fails) ==
  LET key == KeyOf(gateway)
      stored == [w.gatewayStore[key] EXCEPT !.Finalizers = gateway.Finalizers]
  IN IF fails THEN [w |-> w, err |-> "update failed"]
     ELSE IF w.gatewayStore[key] = NotFound THEN [w |-> w, err |-> "not found"]
     ELSE IF w.gatewayStore[key] # fetched THEN [w |-> w, err |-> "conflict"]
     ELSE IF stored.DeletionTimestamp /\ stored.Finalizers = {}
          THEN [w |-> [w EXCEPT !.gatewayStore[key] = NotFound], err |-> Nil]
          ELSE [w |-> [w EXCEPT !.gatewayStore[key] = stored], err |-> Nil]

\* Status().Update(ctx, gateway): the status alone is written
StoreStatusUpdate(w, fetched, gateway, fails) ==
  LET key == KeyOf(gateway)
  IN IF fails THEN [w |-> w, err |-> "status update failed"]
     ELSE IF w.gatewayStore[key] = NotFound THEN [w |-> w, err |-> "not found"]
     ELSE IF w.gatewayStore[key] # fetched THEN [w |-> w, err |-> "conflict"]
     ELSE [w |-> [w EXCEPT !.gatewayStore[key].Status = gateway.Status], err |-> Nil]

(***************************************************************************)
(* pkg/services/watcher.go                                                 *)
(***************************************************************************)
\* IsMCPEnabledService
IsMCPEnabledService(svc) == svc.Labels[MCPEnabledLabel] = "true"

\* Reconcile, lines 165-173: the role of a service, from its type annotation
WatcherServiceType(svc) ==
  IF svc.Annotations # NilMap /\ svc.Annotations[MCPTypeAnnotation] = ServiceTypeAgent THEN ServiceTypeAgent ELSE ServiceTypeTool

\* AddGateway
AddGateway(w, gateway) == [w EXCEPT !.gateways = @ \cup {KeyOf(gateway)}]

\* RemoveGateway that leaves the map as it is
RemoveGateway_Keeps(w, name) == w

\* RemoveGateway
RemoveGateway(w, name) == [w EXCEPT !.gateways = @ \ {name}]

\* metav1.LabelSelectorAsSelector: the requirements of a selector are valid
SelectorValid(selector) ==
  \A e \in selector.MatchExpressions : e.Operator \in {"In", "NotIn", "Exists", "DoesNotExist"} /\ (e.Operator \in {"In", "NotIn"} => e.Values # {}) /\ (e.Operator \in {"Exists", "DoesNotExist"} => e.Values = {})

\* a label set satisfies a selector
SelectorMatches(selector, labels) ==
  /\ \A kv \in selector.MatchLabels : labels[kv[1]] = kv[2]
  /\ \A e \in selector.MatchExpressions :
       CASE e.Operator = "In" -> labels[e.Key] # Absent /\ labels[e.Key] \in e.Values
         [] e.Operator = "NotIn" -> labels[e.Key] = Absent \/ labels[e.Key] \notin e.Values
         [] e.Operator = "Exists" -> labels[e.Key] # Absent
         [] OTHER -> labels[e.Key] = Absent

\* GetMatchingServices: the services of the store that match, and the error
GetMatchingServices(w, gateway, listFails) ==
  IF ~SelectorValid(gateway.Spec.ServiceSelector) THEN [items |-> {}, err |-> "invalid selector"]
  ELSE IF listFails THEN [items |-> {}, err |-> "list failed"]
  ELSE [items |-> {w.serviceStore[k] : k \in {x \in ServiceKeys : w.serviceStore[x] # NotFound /\ SelectorMatches(gateway.Spec.ServiceSelector, w.serviceStore[x].Labels)}}, err |-> Nil]

\* a ctrl.Result with the error returned beside it
Result(requeue, requeueAfter, err) == [Requeue |-> requeue, RequeueAfter |-> requeueAfter, err |-> err]

\* what a handler leaves: the state, what it returned and the path it took
Return(w, result, path) == [w |-> w, result |-> result, path |-> path]

\* one pass of the loop of updateAllGatewayStatuses, for the tracked key:
\* fetch the gateway, project the registry on it, write its status
updateGatewayStatus(w, key, getFails, statusFails) ==
  IF getFails \/ w.gatewayStore[key] = NotFound THEN w
  ELSE StoreStatusUpdate(w, w.gatewayStore[key], UpdateRegistryStatus(w.services, w.gatewayStore[key]), statusFails).w

\* a status push that ends at the first Gateway whose fetch or write fails
RECURSIVE updateGatewayStatuses_StopsAtError(_, _, _, _)
updateGatewayStatuses_StopsAtError(w, keys, getFails, statusFails) ==
  IF keys = {} \/ (\E k \in keys : k \in getFails \cup statusFails) THEN w
  ELSE LET key == CHOOSE k \in keys : TRUE
       IN updateGatewayStatuses_StopsAtError(updateGatewayStatus(w, key, key \in getFails, key \in statusFails), keys \ {key}, getFails, statusFails)

\* updateAllGatewayStatuses over the keys left to visit
RECURSIVE updateGatewayStatuses(_, _, _, _)
updateGatewayStatuses(w, keys, getFails, statusFails) ==
  IF keys = {} THEN w
  ELSE LET key == CHOOSE k \in keys : TRUE
       IN updateGatewayStatuses(updateGatewayStatus(w, key, key \in getFails, key \in statusFails), keys \ {key}, getFails, statusFails)

\* updateAllGatewayStatuses
updateAllGatewayStatuses(w, getFails, statusFails) == updateGatewayStatuses(w, w.gateways, getFails, statusFails)

\* the Watcher leaving the entry of a service it fetched without the label
WatcherRegister_KeepsDisabled(w, req, io) ==
  IF io.getErr THEN Return(w, Result(FALSE, 0, "get failed"), "getError")
  ELSE IF w.serviceStore[req] = NotFound
  THEN Return([w EXCEPT !.services = DeregisterService(w.services, req).services], Result(FALSE, 0, Nil), "notFound")
  ELSE IF ~IsMCPEnabledService(w.serviceStore[req])
  THEN Return(w, Result(FALSE, 0, Nil), "notEnabled")
  ELSE LET r == RegisterService(w.services, w.serviceStore[req], WatcherServiceType(w.serviceStore[req]), w.now)
       IN IF r.err # Nil
          THEN Return(w, Result(FALSE, 0, r.err), "registerError")
          ELSE Return([w EXCEPT !.services = r.services], Result(FALSE, 0, Nil), "registered")

\* ServiceWatcher.Reconcile, up to and including the registration: io.getErr
\* is a failed fetch of the service
WatcherRegister(w, req, io) ==
  IF io.getErr THEN Return(w, Result(FALSE, 0, "get failed"), "getError")
  ELSE IF w.serviceStore[req] = NotFound
  THEN Return([w EXCEPT !.services = DeregisterService(w.services, req).services], Result(FALSE, 0, Nil), "notFound")
  ELSE IF ~IsMCPEnabledService(w.serviceStore[req])
  THEN Return([w EXCEPT !.services = DeregisterService(w.services, req).services], Result(FALSE, 0, Nil), "notEnabled")
  ELSE LET r == RegisterService(w.services, w.serviceStore[req], WatcherServiceType(w.serviceStore[req]), w.now)
       IN IF r.err # Nil
          THEN Return(w, Result(FALSE, 0, r.err), "registerError")
          ELSE Return([w EXCEPT !.services = r.services], Result(FALSE, 0, Nil), "registered")

\* ServiceWatcher.Reconcile: io.pushGetErr and io.pushStatusErr are the
\* gateways whose fetch and whose status write fail in the status push
WatcherReconcile(w, req, io) ==
  LET r == WatcherRegister(w, req, io)
  IN IF r.path = "registered"
     THEN Return(updateAllGatewayStatuses(r.w, io.pushGetErr, io.pushStatusErr), r.result, r.path)
     ELSE r

(***************************************************************************)
(* internal/controller/gateway_controller.go                               *)
(***************************************************************************)
\* fmt.Sprintf("Gateway is ready with %d services", n)
ReadyMessage(n) == <<"Gateway is ready with ", ToString(n), " services">>

\* updateGatewayCondition that appends whatever the list holds
updateGatewayCondition_Appends(gateway, conditionType, status, reason, message, t) ==
  [gateway EXCEPT !.Status.Conditions = Append(@, [Type |-> conditionType, Status |-> status, LastTransitionTime |-> t, Reason |-> reason, Message |-> message, ObservedGeneration |-> gateway.Generation])]

\* updateGatewayCondition at time t: the gateway object with the condition set
updateGatewayCondition(gateway, conditionType, status, reason, message, t) ==
  LET conditions == gateway.Status.Conditions
      condition == [Type |-> conditionType, Status |-> status, LastTransitionTime |-> t, Reason |-> reason, Message |-> message, ObservedGeneration |-> gateway.Generation]
      found == {i \in 1..Len(conditions) : conditions[i].Type = conditionType}
  IN IF found = {} THEN [gateway EXCEPT !.Status.Conditions = Append(conditions, condition)]
     ELSE LET i == CHOOSE j \in found : \A k \in found : j <= k
          IN IF conditions[i].Status = status /\ conditions[i].Reason = reason /\ conditions[i].Message = message
             THEN gateway
             ELSE [gateway EXCEPT !.Status.Conditions[i] = condition]

\* ensureMCPServer that starts the server whether it is running or not
ensureMCPServer_AlwaysStarts(w, gateway) ==
  LET gatewayName == KeyOf(gateway)
      server == Configure(IF w.MCPServers[gatewayName] = NoServer THEN NewServer ELSE w.MCPServers[gatewayName], gateway)
  IN [w |-> [w EXCEPT !.MCPServers[gatewayName] = Start_NoGuard(server).s], err |-> Nil]

\* ensureMCPServer that calls Start without asking IsRunning
ensureMCPServer_NoCheck(w, gateway) ==
  LET gatewayName == KeyOf(gateway)
      server == Configure(IF w.MCPServers[gatewayName] = NoServer THEN NewServer ELSE w.MCPServers[gatewayName], gateway)
  IN [w |-> [w EXCEPT !.MCPServers[gatewayName] = Start(server).s], err |-> Start(server).err]

\* ensureMCPServer: the state and the error
ensureMCPServer(w, gateway) ==
  LET gatewayName == KeyOf(gateway)
      server == Configure(IF w.MCPServers[gatewayName] = NoServer THEN NewServer ELSE w.MCPServers[gatewayName], gateway)
  IN IF ~IsRunning(server)
     THEN [w |-> [w EXCEPT !.MCPServers[gatewayName] = Start(server).s], err |-> Start(server).err]
     ELSE [w |-> [w EXCEPT !.MCPServers[gatewayName] = server], err |-> Nil]

\* cleanupGateway, lines 193-199: stop and remove the MCP server
cleanupServer(w, gatewayName) ==
  IF w.MCPServers[gatewayName] # NoServer THEN [w EXCEPT !.MCPServers[gatewayName] = NoServer] ELSE w

\* cleanupGateway
cleanupGateway(w, gatewayName) == RemoveGateway(cleanupServer(w, gatewayName), gatewayName)

\* handleDeletion, lines 175-185: what follows the cleanup
removeFinalizer(w, gateway, io) ==
  IF gatewayFinalizer \in gateway.Finalizers
  THEN LET u == StoreUpdate(w, gateway, [gateway EXCEPT !.Finalizers = @ \ {gatewayFinalizer}], io.updateErr)
       IN IF u.err # Nil
          THEN Return(u.w, Result(FALSE, 0, u.err), "removeFinalizerError")
          ELSE Return(u.w, Result(FALSE, 0, Nil), "finalizerRemoved")
  ELSE Return(w, Result(FALSE, 0, Nil), "deleted")

\* handleDeletion without its cleanup: the variant C1 must reject
handleDeletion_NoCleanup(w, gateway, io) == removeFinalizer(w, gateway, io)

\* handleDeletion that cleans up and leaves the finalizer in place
handleDeletion_KeepsFinalizer(w, gateway, io) == Return(cleanupGateway(w, KeyOf(gateway)), Result(FALSE, 0, Nil), "deleted")

\* handleDeletion
handleDeletion(w, gateway, io) == removeFinalizer(cleanupGateway(w, KeyOf(gateway)), gateway, io)

\* Reconcile, lines 99-107: add the finalizer and ask to be called again
addFinalizer(w, gateway, io) ==
  LET u == StoreUpdate(w, gateway, [gateway EXCEPT !.Finalizers = @ \cup {gatewayFinalizer}], io.updateErr)
  IN IF u.err # Nil
     THEN Return(u.w, Result(FALSE, 0, u.err), "addFinalizerError")
     ELSE Return(u.w, Result(TRUE, 0, Nil), "finalizerAdded")

\* a Reconciler that registers every service as a tool
ReconcilerServiceType_AlwaysTool(svc) == ServiceTypeTool

\* Reconcile, line 136: the role of a service, from its type annotation
ReconcilerServiceType(svc) ==
  IF svc.Annotations # NilMap /\ svc.Annotations[MCPTypeAnnotation] = ServiceTypeAgent THEN ServiceTypeAgent ELSE ServiceTypeTool

\* the register loop that stops at the first registration that fails
RECURSIVE registerMatching_StopsAtError(_, _, _)
registerMatching_StopsAtError(services, items, t) ==
  IF items = {} \/ (\E x \in items : x.Annotations = NilMap) THEN services
  ELSE LET svc == CHOOSE x \in items : TRUE
       IN registerMatching_StopsAtError(IF svc.Labels[MCPEnabledLabel] = "true" THEN RegisterService(services, svc, ReconcilerServiceType(svc), t).services ELSE services, items \ {svc}, t)

\* Reconcile, lines 131-143: register the matching services that carry the
\* enablement label; a failed registration is logged and the loop goes on
RECURSIVE registerMatching(_, _, _)
registerMatching(services, items, t) ==
  IF items = {} THEN services
  ELSE LET svc == CHOOSE x \in items : TRUE
       IN registerMatching(IF svc.Labels[MCPEnabledLabel] = "true" THEN RegisterService(services, svc, ReconcilerServiceType(svc), t).services ELSE services, items \ {svc}, t)

\* the status without the projection of the registry: the variant C7 must reject
readyStatus_NoProjection(w, gateway) ==
  LET g2 == [gateway EXCEPT !.Status.Address = Addr(gateway.Spec.MCPPort)]
      g3 == updateGatewayCondition(g2, conditionTypeReady, ConditionTrue, reasonReady, ReadyMessage(Cardinality(g2.Status.MCPServices)), w.now)
  IN updateGatewayCondition(g3, conditionTypeAvailable, ConditionTrue, reasonConfigured, <<"Gateway is available">>, w.now)

\* the status with the Ready message counting the entries before the projection
readyStatus_StaleCount(w, gateway) ==
  LET g1 == UpdateRegistryStatus(w.services, gateway)
      g2 == [g1 EXCEPT !.Status.Address = Addr(gateway.Spec.MCPPort)]
      g3 == updateGatewayCondition(g2, conditionTypeReady, ConditionTrue, reasonReady, ReadyMessage(Cardinality(gateway.Status.MCPServices)), w.now)
  IN updateGatewayCondition(g3, conditionTypeAvailable, ConditionTrue, reasonConfigured, <<"Gateway is available">>, w.now)

\* Reconcile, lines 145-156: the status the invocation publishes
readyStatus(w, gateway) ==
  LET g1 == UpdateRegistryStatus(w.services, gateway)
      g2 == [g1 EXCEPT !.Status.Address = Addr(gateway.Spec.MCPPort)]
      g3 == updateGatewayCondition(g2, conditionTypeReady, ConditionTrue, reasonReady, ReadyMessage(Cardinality(g2.Status.MCPServices)), w.now)
  IN updateGatewayCondition(g3, conditionTypeAvailable, ConditionTrue, reasonConfigured, <<"Gateway is available">>, w.now)

\* Reconcile, lines 122-164: what follows AddGateway
reconcileServices(w, gateway, io) ==
  LET m == GetMatchingServices(w, gateway, io.listErr)
      w1 == [w EXCEPT !.services = registerMatching(w.services, m.items, w.now)]
      u == StoreStatusUpdate(w1, gateway, readyStatus(w1, gateway), io.statusErr)
  IN IF m.err # Nil THEN Return(w, Result(FALSE, RequeueAfterError, m.err), "configError")
     ELSE IF u.err # Nil THEN Return(u.w, Result(FALSE, RequeueAfterStatusError, u.err), "statusError")
     ELSE Return(u.w, Result(FALSE, RequeueAfterSuccess, Nil), "ready")

\* Reconcile ensuring the server before the finalizer is stored: the variant
\* C2 must reject
Reconcile_ServerBeforeFinalizer(w, req, io) ==
  IF io.getErr THEN Return(w, Result(FALSE, 0, "get failed"), "getError")
  ELSE IF w.gatewayStore[req] = NotFound THEN Return(cleanupGateway(w, req), Result(FALSE, 0, Nil), "notFound")
  ELSE LET gateway == w.gatewayStore[req]
           e == ensureMCPServer(w, gateway)
       IN IF gateway.DeletionTimestamp THEN handleDeletion(w, gateway, io)
          ELSE IF gatewayFinalizer \notin gateway.Finalizers THEN addFinalizer(e.w, gateway, io)
          ELSE IF e.err # Nil THEN Return(e.w, Result(FALSE, RequeueAfterError, e.err), "serverError")
          ELSE reconcileServices(AddGateway(e.w, gateway), gateway, io)

\* GatewayReconciler.Reconcile: io says which store calls fail
Reconcile(w, req, io) ==
  IF io.getErr THEN Return(w, Result(FALSE, 0, "get failed"), "getError")
  ELSE IF w.gatewayStore[req] = NotFound THEN Return(cleanupGateway(w, req), Result(FALSE, 0, Nil), "notFound")
  ELSE LET gateway == w.gatewayStore[req]
           e == ensureMCPServer(w, gateway)
       IN IF gateway.DeletionTimestamp THEN handleDeletion(w, gateway, io)
          ELSE IF gatewayFinalizer \notin gateway.Finalizers THEN addFinalizer(w, gateway, io)
          ELSE IF e.err # Nil THEN Return(e.w, Result(FALSE, RequeueAfterError, e.err), "serverError")
          ELSE reconcileServices(AddGateway(e.w, gateway), gateway, io)

(***************************************************************************)
(* The state machine.                                                      *)
(***************************************************************************)
VARIABLES
  gatewayStore,   \* the API server: the Gateway object under each key, or NotFound
  serviceStore,   \* the API server: the Service object under each key, or NotFound
  MCPServers,     \* GatewayReconciler.MCPServers: the Server of each key, or NoServer
  services,       \* Registry.services: the MCPService of each key, or NoEntry
  gateways,       \* ServiceWatcher.gateways: the keys the watcher tracks
  now,            \* time.Now()
  queue,          \* the dispatcher: the services with a reconcile request pending
  last,           \* the last handler invocation: which, for which key, its path and result
  running,        \* the invocation in flight for each key, when handlers interleave
  access          \* the accesses to ServiceWatcher.gateways in progress; where the
                  \* Registry is called concurrently, the holders of Registry.mutex

vars == <<gatewayStore, serviceStore, MCPServers, services, gateways, now, queue, last, running, access>>

\* what the interleaved handlers add to the state
raceVars == <<running, access>>

\* the state the handlers work on
World == [gatewayStore |-> gatewayStore, serviceStore |-> serviceStore, MCPServers |-> MCPServers, services |-> services, gateways |-> gateways, now |-> now]

\* the state a handler leaves
Apply(w) ==
  /\ gatewayStore' = w.gatewayStore
  /\ serviceStore' = w.serviceStore
  /\ MCPServers' = w.MCPServers
  /\ services' = w.services
  /\ gateways' = w.gateways
  /\ now' = w.now

Invocation(op, key, r) == [op |-> op, key |-> key, path |-> r.path, result |-> r.result]
\* the two handlers
GatewayOp == "GatewayReconciler.Reconcile"
WatcherOp == "ServiceWatcher.Reconcile"

\* no invocation is in flight for a key
Idle == [pc |-> "idle"]

NoInvocation == [op |-> "none", key |-> NamespacedName("", ""), path |-> "", result |-> Result(FALSE, 0, Nil)]

\* the outcomes of the store calls of one Reconcile
ReconcileIO == [getErr : BOOLEAN, updateErr : BOOLEAN, listErr : BOOLEAN, statusErr : BOOLEAN]
\* the outcomes of the store calls of one ServiceWatcher.Reconcile
WatcherIO(tracked) == [getErr : BOOLEAN, pushGetErr : SUBSET tracked, pushStatusErr : SUBSET tracked]

\* the state after construction: SetupWithManager and NewServiceWatcher, NewRegistry
Init ==
  /\ gatewayStore = [k \in GatewayKeys |-> NotFound]
  /\ serviceStore = [k \in ServiceKeys |-> NotFound]
  /\ MCPServers = [k \in GatewayKeys |-> NoServer]
  /\ services = [k \in ServiceKeys |-> NoEntry]
  /\ gateways = {}
  /\ now = 0
  /\ queue = {}
  /\ last = NoInvocation
  /\ running = [k \in GatewayKeys \cup ServiceKeys |-> Idle]
  /\ access = {}

\* a user creates a Gateway
CreateGateway(key, spec) ==
  /\ gatewayStore[key] = NotFound
  /\ gatewayStore' = [gatewayStore EXCEPT ![key] = Gateway(key, spec)]
  /\ last' = NoInvocation
  /\ UNCHANGED <<serviceStore, MCPServers, services, gateways, now, queue, raceVars>>

\* a user changes the spec of a Gateway: the store raises its generation
UpdateGateway(key, spec) ==
  /\ gatewayStore[key] # NotFound
  /\ gatewayStore[key].Spec # spec
  /\ gatewayStore[key].Generation < MaxGeneration
  /\ gatewayStore' = [gatewayStore EXCEPT ![key].Spec = spec, ![key].Generation = @ + 1]
  /\ last' = NoInvocation
  /\ UNCHANGED <<serviceStore, MCPServers, services, gateways, now, queue, raceVars>>

\* a user deletes a Gateway: with a finalizer the store only marks it
DeleteGateway(key) ==
  /\ gatewayStore[key] # NotFound
  /\ ~gatewayStore[key].DeletionTimestamp
  /\ gatewayStore' = [gatewayStore EXCEPT ![key] = IF @.Finalizers = {} THEN NotFound ELSE [@ EXCEPT !.DeletionTimestamp = TRUE]]
  /\ last' = NoInvocation
  /\ UNCHANGED <<serviceStore, MCPServers, services, gateways, now, queue, raceVars>>

\* an update filter that looks at the new version alone
UpdateFunc_NewOnly(objectOld, objectNew) == IsMCPEnabledService(objectNew)

\* NewServiceWatcher, lines 92-102: the event filter of the watcher
CreateFunc(object) == IsMCPEnabledService(object)
UpdateFunc(objectOld, objectNew) == IsMCPEnabledService(objectNew) \/ IsMCPEnabledService(objectOld)
DeleteFunc(object) == IsMCPEnabledService(object)

\* a backend service is created: the event passes the filter or not
CreateService(key, svc) ==
  /\ serviceStore[key] = NotFound
  /\ serviceStore' = [serviceStore EXCEPT ![key] = svc]
  /\ queue' = IF CreateFunc(svc) THEN queue \cup {key} ELSE queue
  /\ last' = NoInvocation
  /\ UNCHANGED <<gatewayStore, MCPServers, services, gateways, now, raceVars>>

\* a backend service is updated
UpdateService(key, svc) ==
  /\ serviceStore[key] # NotFound
  /\ serviceStore[key] # svc
  /\ serviceStore' = [serviceStore EXCEPT ![key] = svc]
  /\ queue' = IF UpdateFunc(serviceStore[key], svc) THEN queue \cup {key} ELSE queue
  /\ last' = NoInvocation
  /\ UNCHANGED <<gatewayStore, MCPServers, services, gateways, now, raceVars>>

\* a backend service is deleted
DeleteService(key) ==
  /\ serviceStore[key] # NotFound
  /\ serviceStore' = [serviceStore EXCEPT ![key] = NotFound]
  /\ queue' = IF DeleteFunc(serviceStore[key]) THEN queue \cup {key} ELSE queue
  /\ last' = NoInvocation
  /\ UNCHANGED <<gatewayStore, MCPServers, services, gateways, now, raceVars>>

\* the event of a service is missed: its request never reaches the watcher
MissEvent(key) ==
  /\ key \in queue
  /\ queue' = queue \ {key}
  /\ UNCHANGED <<gatewayStore, serviceStore, MCPServers, services, gateways, now, last, raceVars>>

\* time passes
Tick ==
  /\ now < MaxClock
  /\ now' = now + 1
  /\ UNCHANGED <<gatewayStore, serviceStore, MCPServers, services, gateways, queue, last, raceVars>>

\* the dispatcher invokes GatewayReconciler.Reconcile for a key: on an event
\* of the Gateway, on a requeue or on the periodic revisit
GatewayReconcile(key, io) ==
  LET r == Reconcile(World, key, io)
  IN /\ Apply(r.w)
     /\ last' = Invocation(GatewayOp, key, r)
     /\ UNCHANGED <<queue, raceVars>>

\* the dispatcher invokes ServiceWatcher.Reconcile for a pending request; a
\* request that returned an error is retried
ServiceReconcile(key, io) ==
  LET r == WatcherReconcile(World, key, io)
  IN /\ key \in queue
     /\ Apply(r.w)
     /\ queue' = IF r.result.err # Nil THEN queue ELSE queue \ {key}
     /\ last' = Invocation(WatcherOp, key, r)
     /\ UNCHANGED raceVars

\* the steps of the environment and of the dispatcher over the Gateways GK and
\* the Services SK
Environment(GK, SK) ==
  \/ \E key \in GK, spec \in GatewaySpecs : CreateGateway(key, spec)
  \/ \E key \in GK : DeleteGateway(key)
  \/ \E key \in SK : \E svc \in ServiceShapes(key) : CreateService(key, svc)
  \/ \E key \in SK : \E svc \in ServiceShapes(key) : UpdateService(key, svc)
  \/ \E key \in SK : DeleteService(key)
  \/ \E key \in SK : MissEvent(key)

Handlers(GK, SK) ==
  \/ \E key \in GK, io \in ReconcileIO : GatewayReconcile(key, io)
  \/ \E key \in SK, io \in WatcherIO(gateways) : ServiceReconcile(key, io)

\* one Gateway and one Service
OneGateway == {NamespacedName("ns", "g1")}
OneService == {NamespacedName("ns", "s1")}

\* the specification: one Gateway whose spec changes, one Service, the clock stopped
Next ==
  \/ Environment(OneGateway, OneService)
  \/ \E key \in OneGateway, spec \in GatewaySpecs : UpdateGateway(key, spec)
  \/ Handlers(OneGateway, OneService)

Spec == Init /\ [][Next]_vars

\* the same with the clock running and the spec of the Gateway left alone
NextClock ==
  \/ Environment(OneGateway, OneService)
  \/ Tick
  \/ Handlers(OneGateway, OneService)

SpecClock == Init /\ [][NextClock]_vars

\* every store call of a Reconcile succeeds
ReconcileOK == [getErr |-> FALSE, updateErr |-> FALSE, listErr |-> FALSE, statusErr |-> FALSE]

(***************************************************************************)
(* The handlers interleaved.  The dispatcher runs invocations for          *)
(* different keys at the same time (never two for one key), and            *)
(* ServiceWatcher.gateways is a plain Go map that no lock guards: a        *)
(* Reconcile writes it in AddGateway and RemoveGateway while               *)
(* updateAllGatewayStatuses of the Watcher ranges over it.  Here a         *)
(* Reconcile runs in two steps, up to the start of its map write and from  *)
(* the end of that write on, and the Watcher in one step up to its         *)
(* range, one step per key visited and one step ending the range.          *)
(***************************************************************************)
\* Reconcile up to its write of ServiceWatcher.gateways: pc names the write
\* it is about to make, or "return" when it returns before any
ReconcileBeforeWrite(w, req, io) ==
  IF io.getErr THEN [pc |-> "return", r |-> Return(w, Result(FALSE, 0, "get failed"), "getError")]
  ELSE IF w.gatewayStore[req] = NotFound THEN [pc |-> "RemoveGateway", r |-> Return(cleanupServer(w, req), Result(FALSE, 0, Nil), "")]
  ELSE LET gateway == w.gatewayStore[req]
           e == ensureMCPServer(w, gateway)
       IN IF gateway.DeletionTimestamp THEN [pc |-> "RemoveGateway", r |-> Return(cleanupServer(w, req), Result(FALSE, 0, Nil), "")]
          ELSE IF gatewayFinalizer \notin gateway.Finalizers THEN [pc |-> "return", r |-> addFinalizer(w, gateway, io)]
          ELSE IF e.err # Nil THEN [pc |-> "return", r |-> Return(e.w, Result(FALSE, RequeueAfterError, e.err), "serverError")]
          ELSE [pc |-> "AddGateway", r |-> Return(e.w, Result(FALSE, 0, Nil), "")]

\* Reconcile from its write of ServiceWatcher.gateways on; c is the call in
\* flight: the write, the Gateway as fetched and the outcomes of the store calls
ReconcileFromWrite(w, req, c) ==
  IF c.pc = "AddGateway" THEN reconcileServices(AddGateway(w, c.gateway), c.gateway, c.io)
  ELSE IF c.gateway = NotFound THEN Return(RemoveGateway(w, req), Result(FALSE, 0, Nil), "notFound")
  ELSE removeFinalizer(RemoveGateway(w, req), c.gateway, c.io)

\* an access to the map ServiceWatcher.gateways by the invocation for a key
Access(key, kind) == [by |-> key, kind |-> kind]

\* a Reconcile starts and runs up to its map write, which it begins
GatewayReconcileBegin(key, io) ==
  LET b == ReconcileBeforeWrite(World, key, io)
  IN /\ running[key] = Idle
     /\ Apply(b.r.w)
     /\ UNCHANGED queue
     /\ IF b.pc = "return"
        THEN last' = Invocation(GatewayOp, key, b.r) /\ UNCHANGED raceVars
        ELSE /\ running' = [running EXCEPT ![key] = [pc |-> b.pc, gateway |-> gatewayStore[key], io |-> io]]
             /\ access' = access \cup {Access(key, "write")}
             /\ UNCHANGED last

\* the map write of a Reconcile ends and the Reconcile runs to its return
GatewayReconcileEnd(key) ==
  LET r == ReconcileFromWrite(World, key, running[key])
  IN /\ running[key] # Idle
     /\ Apply(r.w)
     /\ last' = Invocation(GatewayOp, key, r)
     /\ running' = [running EXCEPT ![key] = Idle]
     /\ access' = access \ {Access(key, "write")}
     /\ UNCHANGED queue

\* a Watcher reconciliation takes its request and runs up to the range of
\* updateAllGatewayStatuses, which it begins, or returns before
ServiceReconcileBegin(key, getErr) ==
  LET r == WatcherRegister(World, key, [getErr |-> getErr])
  IN /\ key \in queue
     /\ running[key] = Idle
     /\ Apply(r.w)
     /\ IF r.path = "registered"
        THEN /\ running' = [running EXCEPT ![key] = [pc |-> "range", start |-> gateways, visited |-> {}]]
             /\ access' = access \cup {Access(key, "range")}
             /\ queue' = queue \ {key}
             /\ UNCHANGED last
        ELSE /\ queue' = IF r.result.err # Nil THEN queue ELSE queue \ {key}
             /\ last' = Invocation(WatcherOp, key, r)
             /\ UNCHANGED raceVars

\* the range visits one key: a key the map held when the range began or
\* one it holds now (what a range yields of a map written meanwhile is not
\* defined)
ServiceReconcileVisit(key, gateway, getFails, statusFails) ==
  /\ running[key] # Idle
  /\ gateway \in (running[key].start \cup gateways) \ running[key].visited
  /\ Apply(updateGatewayStatus(World, gateway, getFails, statusFails))
  /\ running' = [running EXCEPT ![key].visited = @ \cup {gateway}]
  /\ UNCHANGED <<queue, last, access>>

\* the range ends, every key the map held throughout having been visited,
\* and the Watcher reconciliation returns
ServiceReconcileEnd(key) ==
  /\ running[key] # Idle
  /\ (running[key].start \cap gateways) \subseteq running[key].visited
  /\ running' = [running EXCEPT ![key] = Idle]
  /\ access' = access \ {Access(key, "range")}
  /\ last' = Invocation(WatcherOp, key, Return(World, Result(FALSE, 0, Nil), "registered"))
  /\ UNCHANGED <<gatewayStore, serviceStore, MCPServers, services, gateways, now, queue>>

NextRace ==
  \/ Environment(OneGateway, OneService)
  \/ \E key \in OneGateway, io \in ReconcileIO : GatewayReconcileBegin(key, io)
  \/ \E key \in OneGateway : GatewayReconcileEnd(key)
  \/ \E key \in OneService, getErr \in BOOLEAN : ServiceReconcileBegin(key, getErr)
  \/ \E key \in OneService, gateway \in OneGateway, getFails \in BOOLEAN, statusFails \in BOOLEAN : ServiceReconcileVisit(key, gateway, getFails, statusFails)
  \/ \E key \in OneService : ServiceReconcileEnd(key)

SpecRace == Init /\ [][NextRace]_vars

(***************************************************************************)
(* The Registry called directly: any sequence of RegisterService,          *)
(* DeregisterService, GetService and UpdateRegistryStatus, on services of  *)
(* every shape RegisterService tells apart.                                *)
(***************************************************************************)
\* a value of svc.Spec.Type other than corev1.ServiceTypeClusterIP
ServiceTypeNodePort == "NodePort"

\* the annotation maps RegisterService tells apart: nil, empty, without and
\* with the endpoint annotation
RegistryAnnotations ==
  { NilMap,
    Annotations(Absent, Absent),
    Annotations(ServiceTypeAgent, Absent),
    Annotations(ServiceTypeTool, "/custom") }

\* the services RegisterService is called with
RegistryInputs(key) ==
  { Service(key, Labels("true", "a"), annotations, type, ports) :
      annotations \in RegistryAnnotations, type \in {ServiceTypeClusterIP, ServiceTypeNodePort}, ports \in {0, 1} }

\* the status lists a Gateway object holds before a projection: none, and
\* one entry left from an earlier state of the Registry
PriorLists ==
  { {},
    {[Name |-> "s1", Namespace |-> "ns", Type |-> ServiceTypeTool, Endpoint |-> <<"/old">>, Status |-> ServiceStatusPending, LastUpdated |-> 0]} }

RegisterOp == "Registry.RegisterService"
DeregisterOp == "Registry.DeregisterService"
GetOp == "Registry.GetService"
ProjectOp == "Registry.UpdateRegistryStatus"

\* a call of RegisterService
RegistryRegister(svc, serviceType) ==
  LET r == RegisterService(services, svc, serviceType, now)
  IN /\ services' = r.services
     /\ last' = [op |-> RegisterOp, key |-> KeyOf(svc), path |-> IF r.err = Nil THEN "registered" ELSE "error", result |-> [svc |-> svc, serviceType |-> serviceType, prior |-> services[KeyOf(svc)], err |-> r.err]]
     /\ UNCHANGED <<gatewayStore, serviceStore, MCPServers, gateways, now, queue, raceVars>>

\* a call of DeregisterService
RegistryDeregister(name) ==
  LET r == DeregisterService(services, name)
  IN /\ services' = r.services
     /\ last' = [op |-> DeregisterOp, key |-> name, path |-> IF r.removed THEN "removed" ELSE "absent", result |-> [removed |-> r.removed]]
     /\ UNCHANGED <<gatewayStore, serviceStore, MCPServers, gateways, now, queue, raceVars>>

\* a call of GetService
RegistryGet(name) ==
  LET r == GetService(services, name)
  IN /\ last' = [op |-> GetOp, key |-> name, path |-> IF r.exists THEN "found" ELSE "absent", result |-> r]
     /\ UNCHANGED <<gatewayStore, serviceStore, MCPServers, services, gateways, now, queue, raceVars>>

\* a call of UpdateRegistryStatus on a Gateway object whose status holds prior
RegistryProject(key, prior) ==
  LET gateway == [Gateway(key, GatewaySpec(8080, SelectorEnabled, FALSE, "")) EXCEPT !.Status.MCPServices = prior]
      r == UpdateRegistryStatus(services, gateway)
  IN /\ last' = [op |-> ProjectOp, key |-> key, path |-> "", result |-> [prior |-> prior, gateway |-> r]]
     /\ UNCHANGED <<gatewayStore, serviceStore, MCPServers, services, gateways, now, queue, raceVars>>

NextRegistry ==
  \/ \E key \in ServiceKeys : \E svc \in RegistryInputs(key), serviceType \in {ServiceTypeTool, ServiceTypeAgent} : RegistryRegister(svc, serviceType)
  \/ \E name \in ServiceKeys : RegistryDeregister(name)
  \/ \E name \in ServiceKeys : RegistryGet(name)
  \/ \E key \in OneGateway, prior \in PriorLists : RegistryProject(key, prior)

SpecRegistry == Init /\ [][NextRegistry]_vars

(***************************************************************************)
(* The listener of one Gateway called directly (NewServer, Configure,      *)
(* Start, Stop, IsRunning in any order) and by the Reconciler              *)
(* (ensureMCPServer, and the cleanup that stops and discards it).          *)
(***************************************************************************)
NewServerOp == "NewServer"
ConfigureOp == "Server.Configure"
StartOp == "Server.Start"
StopOp == "Server.Stop"
IsRunningOp == "Server.IsRunning"
EnsureOp == "GatewayReconciler.ensureMCPServer"
CleanupOp == "GatewayReconciler.cleanupGateway"

\* what httpServer.Shutdown returns
ShutdownErrors == {Nil, "context deadline exceeded"}

\* a call on the listener of a key: the listener before it, the Gateway spec
\* it was given and what it returned
ServerCall(op, key, prior, spec, ret) == [op |-> op, key |-> key, path |-> "", result |-> [prior |-> prior, spec |-> spec, ret |-> ret]]

\* the spec of a call that takes none
NoSpec == GatewaySpec(0, LabelSelector({}, {}), FALSE, "")

ServerNew(key) ==
  /\ MCPServers[key] = NoServer
  /\ MCPServers' = [MCPServers EXCEPT ![key] = NewServer]
  /\ last' = ServerCall(NewServerOp, key, MCPServers[key], NoSpec, Nil)
  /\ UNCHANGED <<gatewayStore, serviceStore, services, gateways, now, queue, raceVars>>

ServerConfigure(key, spec) ==
  /\ MCPServers[key] # NoServer
  /\ MCPServers' = [MCPServers EXCEPT ![key] = Configure(@, Gateway(key, spec))]
  /\ last' = ServerCall(ConfigureOp, key, MCPServers[key], spec, Nil)
  /\ UNCHANGED <<gatewayStore, serviceStore, services, gateways, now, queue, raceVars>>

ServerStart(key) ==
  /\ MCPServers[key] # NoServer
  /\ MCPServers' = [MCPServers EXCEPT ![key] = Start(@).s]
  /\ last' = ServerCall(StartOp, key, MCPServers[key], NoSpec, Start(MCPServers[key]).err)
  /\ UNCHANGED <<gatewayStore, serviceStore, services, gateways, now, queue, raceVars>>

ServerStop(key, shutdownErr) ==
  /\ MCPServers[key] # NoServer
  /\ MCPServers' = [MCPServers EXCEPT ![key] = Stop(@, shutdownErr).s]
  /\ last' = ServerCall(StopOp, key, MCPServers[key], NoSpec, Stop(MCPServers[key], shutdownErr).err)
  /\ UNCHANGED <<gatewayStore, serviceStore, services, gateways, now, queue, raceVars>>

ServerIsRunning(key) ==
  /\ MCPServers[key] # NoServer
  /\ last' = ServerCall(IsRunningOp, key, MCPServers[key], NoSpec, IF IsRunning(MCPServers[key]) THEN "true" ELSE "false")
  /\ UNCHANGED <<gatewayStore, serviceStore, MCPServers, services, gateways, now, queue, raceVars>>

\* the Reconciler ensures the listener of a Gateway
ServerEnsure(key, spec) ==
  LET e == ensureMCPServer(World, Gateway(key, spec))
  IN /\ MCPServers' = e.w.MCPServers
     /\ last' = ServerCall(EnsureOp, key, MCPServers[key], spec, e.err)
     /\ UNCHANGED <<gatewayStore, serviceStore, services, gateways, now, queue, raceVars>>

\* the Reconciler cleans up: the listener is stopped and its handle discarded
ServerCleanup(key) ==
  /\ MCPServers' = cleanupServer(World, key).MCPServers
  /\ last' = ServerCall(CleanupOp, key, MCPServers[key], NoSpec, Nil)
  /\ UNCHANGED <<gatewayStore, serviceStore, services, gateways, now, queue, raceVars>>

NextServer ==
  \/ \E key \in OneGateway : ServerNew(key)
  \/ \E key \in OneGateway, spec \in GatewaySpecs : ServerConfigure(key, spec)
  \/ \E key \in OneGateway : ServerStart(key)
  \/ \E key \in OneGateway, shutdownErr \in ShutdownErrors : ServerStop(key, shutdownErr)
  \/ \E key \in OneGateway : ServerIsRunning(key)
  \/ \E key \in OneGateway, spec \in GatewaySpecs : ServerEnsure(key, spec)
  \/ \E key \in OneGateway : ServerCleanup(key)

SpecServer == Init /\ [][NextServer]_vars

(***************************************************************************)
(* A Gateway that selects by a match expression on the enablement label,   *)
(* and services with every value of that label and of the type annotation  *)
(* that the handlers tell apart.                                           *)
(***************************************************************************)
\* matchExpressions: mcp-enabled In ("true", "yes")
SelectorTrueOrYes == LabelSelector({}, {[Key |-> MCPEnabledLabel, Operator |-> "In", Values |-> {"true", "yes"}]})

\* the values of the annotation mcp.fetchfy.ai/type: agent, tool, one that is
\* neither, and none
TypeAnnotations == {ServiceTypeAgent, ServiceTypeTool, "other", Absent}

\* services labelled mcp-enabled=true or =yes, with and without annotations
SelectShapes(key) ==
  { Service(key, Labels(enabled, "a"), Annotations(type, Absent), ServiceTypeClusterIP, 1) : enabled \in {"true", "yes"}, type \in TypeAnnotations }
    \cup { Service(key, Labels("true", "a"), NilMap, ServiceTypeClusterIP, 1) }

NextSelect ==
  \/ \E key \in OneGateway : CreateGateway(key, GatewaySpec(8080, SelectorTrueOrYes, FALSE, ""))
  \/ \E key \in OneGateway : DeleteGateway(key)
  \/ \E key \in OneService : \E svc \in SelectShapes(key) : CreateService(key, svc)
  \/ \E key \in OneService : \E svc \in SelectShapes(key) : UpdateService(key, svc)
  \/ \E key \in OneService : DeleteService(key)
  \/ Handlers(OneGateway, OneService)

SpecSelect == Init /\ [][NextSelect]_vars

(***************************************************************************)
(* One Gateway and two Services whose events the Watcher never processes:  *)
(* the Registry is filled by the Reconciler alone.                         *)
(***************************************************************************)
NextResync ==
  \/ Environment(OneGateway, ServiceKeys)
  \/ \E key \in OneGateway, io \in ReconcileIO : GatewayReconcile(key, io)

SpecResync == Init /\ [][NextResync]_vars

(***************************************************************************)
(* Two Gateways and one Service: the status push of the Watcher has more   *)
(* than one tracked Gateway to visit.  The store calls of the Reconciler   *)
(* succeed; those of the Watcher fail for any of the Gateways.             *)
(***************************************************************************)
\* the specs of the two Gateways: different ports
PushSpecs == {GatewaySpec(8080, SelectorEnabled, FALSE, ""), GatewaySpec(8081, SelectorNone, FALSE, "")}

NextPush ==
  \/ \E key \in GatewayKeys, spec \in PushSpecs : CreateGateway(key, spec)
  \/ \E key \in GatewayKeys : DeleteGateway(key)
  \/ \E key \in OneService : \E svc \in ServiceShapes(key) : CreateService(key, svc)
  \/ \E key \in OneService : \E svc \in ServiceShapes(key) : UpdateService(key, svc)
  \/ \E key \in OneService : DeleteService(key)
  \/ \E key \in GatewayKeys : GatewayReconcile(key, ReconcileOK)
  \/ \E key \in OneService, io \in WatcherIO(gateways) : ServiceReconcile(key, io)

SpecPush == Init /\ [][NextPush]_vars

(***************************************************************************)
(* updateGatewayCondition called directly on a Gateway object, with any    *)
(* type, status, reason and message, while the clock runs and the          *)
(* generation of the object rises.                                         *)
(***************************************************************************)
ConditionOp == "GatewayReconciler.updateGatewayCondition"

\* the arguments of the calls
ConditionTypes == {conditionTypeReady, conditionTypeAvailable}
ConditionStatuses == {ConditionTrue, ConditionFalse}
ConditionReasons == {reasonReady, reasonServerError}
ConditionMessages == {ReadyMessage(0), ReadyMessage(1)}

\* a call of updateGatewayCondition on the object held under the key
ConditionUpdate(key, conditionType, status, reason, message) ==
  /\ gatewayStore[key] # NotFound
  /\ gatewayStore' = [gatewayStore EXCEPT ![key] = updateGatewayCondition(@, conditionType, status, reason, message, now)]
  /\ last' = [op |-> ConditionOp, key |-> key, path |-> "", result |-> [prior |-> gatewayStore[key], conditionType |-> conditionType, status |-> status, reason |-> reason, message |-> message, t |-> now]]
  /\ UNCHANGED <<serviceStore, MCPServers, services, gateways, now, queue, raceVars>>

NextCondition ==
  \/ \E key \in OneGateway : CreateGateway(key, GatewaySpec(8080, SelectorEnabled, FALSE, ""))
  \/ \E key \in OneGateway : UpdateGateway(key, GatewaySpec(8081, SelectorEnabled, FALSE, ""))
  \/ Tick
  \/ \E key \in OneGateway, conditionType \in ConditionTypes, status \in ConditionStatuses, reason \in ConditionReasons, message \in ConditionMessages :
       ConditionUpdate(key, conditionType, status, reason, message)

SpecCondition == Init /\ [][NextCondition]_vars

(***************************************************************************)
(* The accept loops of the listeners.  Start spawns a goroutine that runs  *)
(* httpServer.ListenAndServe; it binds the port unless another listener    *)
(* of the process serves the same address, and it may fail at any time.    *)
(* Two Gateways with the same mcpPort, every store call succeeding.        *)
(***************************************************************************)
\* the addresses the listeners of the process are bound to
BoundAddrs == {MCPServers[k].httpServer.Addr : k \in {g \in GatewayKeys : MCPServers[g] # NoServer /\ MCPServers[g].listenAndServe = "serving"}}

\* ListenAndServe binds the port of the listener
ServeBinds(key) ==
  /\ MCPServers[key] # NoServer
  /\ MCPServers[key].listenAndServe = "starting"
  /\ MCPServers[key].httpServer.Addr \notin BoundAddrs
  /\ MCPServers' = [MCPServers EXCEPT ![key] = serveBound(@)]
  /\ last' = NoInvocation
  /\ UNCHANGED <<gatewayStore, serviceStore, services, gateways, now, queue, raceVars>>

\* ListenAndServe returns an error: the bind failed, or the serving did
ServeFails(key) ==
  /\ MCPServers[key] # NoServer
  /\ MCPServers[key].listenAndServe \in {"starting", "serving"}
  /\ MCPServers' = [MCPServers EXCEPT ![key] = serveFailed(@)]
  /\ last' = NoInvocation
  /\ UNCHANGED <<gatewayStore, serviceStore, services, gateways, now, queue, raceVars>>

ServeSpecs == {GatewaySpec(8080, SelectorEnabled, FALSE, "")}

NextServe ==
  \/ \E key \in GatewayKeys, spec \in ServeSpecs : CreateGateway(key, spec)
  \/ \E key \in GatewayKeys : DeleteGateway(key)
  \/ \E key \in GatewayKeys : GatewayReconcile(key, ReconcileOK)
  \/ \E key \in GatewayKeys : ServeBinds(key)
  \/ \E key \in GatewayKeys : ServeFails(key)

SpecServe == Init /\ [][NextServe]_vars

(***************************************************************************)
(* The Registry called by two goroutines at a time.  Every method takes    *)
(* r.mutex first (Lock in RegisterService and DeregisterService, RLock in  *)
(* GetService, ListServices and UpdateRegistryStatus) and releases it when *)
(* it returns.  A call runs in steps: it takes the mutex; a read then      *)
(* reads the map one key at a time; the last step does the write, if any,  *)
(* releases the mutex and returns.  Here access holds the holders of       *)
(* r.mutex.                                                                *)
(***************************************************************************)
ListOp == "Registry.ListServices"

\* a mutex that grants every call at once
CanLock_NoExclusion(held, kind) == TRUE

\* sync.RWMutex: Lock is granted when nobody holds the mutex, RLock when no
\* writer does
CanLock(held, kind) ==
  IF kind = "Lock" THEN held = {} ELSE \A a \in held : a.kind # "Lock"

\* the goroutines that call the Registry: an invocation of each handler
Callers == OneGateway \cup OneService

\* the calls: the method and its arguments
RegistryCall(op, svc, serviceType, name) == [op |-> op, svc |-> svc, serviceType |-> serviceType, name |-> name]
RegistryCalls ==
  {RegistryCall(RegisterOp, svc, serviceType, KeyOf(svc)) :
     svc \in UNION {{Service(k, Labels("true", "a"), Annotations(Absent, Absent), ServiceTypeClusterIP, 1), Service(k, Labels("true", "a"), NilMap, ServiceTypeClusterIP, 1)} : k \in ServiceKeys},
     serviceType \in {ServiceTypeTool, ServiceTypeAgent}}
  \cup {RegistryCall(op, NotFound, ServiceTypeTool, name) : op \in {DeregisterOp, GetOp}, name \in ServiceKeys}
  \cup {RegistryCall(op, NotFound, ServiceTypeTool, NamespacedName("", "")) : op \in {ListOp, ProjectOp}}

\* the mutex call of a method
LockKind(op) == IF op \in {RegisterOp, DeregisterOp} THEN "Lock" ELSE "RLock"

\* the keys a read looks up
ReadKeys(call) == IF call.op = GetOp THEN {call.name} ELSE IF call.op \in {ListOp, ProjectOp} THEN ServiceKeys ELSE {}

\* a call takes the mutex; start is the map at that instant
RegistryLock(caller, call) ==
  /\ running[caller] = Idle
  /\ CanLock(access, LockKind(call.op))
  /\ running' = [running EXCEPT ![caller] = [pc |-> "locked", call |-> call, start |-> services, visited |-> {}, seen |-> {}]]
  /\ access' = access \cup {Access(caller, LockKind(call.op))}
  /\ UNCHANGED <<gatewayStore, serviceStore, MCPServers, services, gateways, now, queue, last>>

\* a read looks up one key of the map
RegistryRead(caller, k) ==
  /\ running[caller] # Idle
  /\ k \in ReadKeys(running[caller].call) \ running[caller].visited
  /\ running' = [running EXCEPT ![caller].visited = @ \cup {k},
                                ![caller].seen = @ \cup (IF services[k] # NoEntry THEN {services[k]} ELSE {})]
  /\ UNCHANGED <<gatewayStore, serviceStore, MCPServers, services, gateways, now, queue, last, access>>

\* what a call returns, having seen the entries it looked up
RegistryReturn(c, r, d) ==
  CASE c.call.op = RegisterOp -> r.err
    [] c.call.op = DeregisterOp -> d.removed
    [] c.call.op = GetOp -> [svc |-> IF c.seen = {} THEN NoEntry ELSE CHOOSE e \in c.seen : TRUE, exists |-> c.seen # {}]
    [] c.call.op = ListOp -> c.seen
    [] OTHER -> {MCPServiceInfo(e) : e \in c.seen}

\* a call does its write, releases the mutex and returns
RegistryUnlock(caller) ==
  LET c == running[caller]
      r == RegisterService(services, c.call.svc, c.call.serviceType, now)
      d == DeregisterService(services, c.call.name)
  IN /\ c # Idle
     /\ ReadKeys(c.call) \subseteq c.visited
     /\ services' = IF c.call.op = RegisterOp THEN r.services ELSE IF c.call.op = DeregisterOp THEN d.services ELSE services
     /\ running' = [running EXCEPT ![caller] = Idle]
     /\ access' = access \ {Access(caller, LockKind(c.call.op))}
     /\ last' = [op |-> c.call.op, key |-> c.call.name, path |-> "", result |-> [call |-> c.call, start |-> c.start, ret |-> RegistryReturn(c, r, d), after |-> services']]
     /\ UNCHANGED <<gatewayStore, serviceStore, MCPServers, gateways, now, queue>>

NextLock ==
  \/ \E caller \in Callers, call \in RegistryCalls : RegistryLock(caller, call)
  \/ \E caller \in Callers, k \in ServiceKeys : RegistryRead(caller, k)
  \/ \E caller \in Callers : RegistryUnlock(caller)

SpecLock == Init /\ [][NextLock]_vars

(***************************************************************************)
(* The status writes of the two handlers interleaved.  Each handler        *)
(* fetches the Gateway, projects the Registry on the object it fetched     *)
(* and writes the status with Status().Update; the API server compares     *)
(* the resourceVersion of the object written with the one it stores, and   *)
(* gives a new one to every write that changes the object.  A Gateway      *)
(* that has been reconciled once (finalizer stored, listener running,      *)
(* tracked by the Watcher, status published), and one Service.             *)
(* In the records of the calls in flight, from is the Registry at the      *)
(* projection, older the calls in flight whose projection was taken        *)
(* before from another Registry, and outdated tells that a call which      *)
(* found this one older has changed the stored object since.               *)
(***************************************************************************)
\* Status().Update that ignores the resourceVersion
StatusUpdate_NoConflict(w, gateway) ==
  LET key == KeyOf(gateway)
      stored == w.gatewayStore[key]
  IN IF stored = NotFound THEN [w |-> w, err |-> "not found"]
     ELSE IF stored.Status = gateway.Status THEN [w |-> w, err |-> Nil]
     ELSE [w |-> [w EXCEPT !.gatewayStore[key].Status = gateway.Status, !.gatewayStore[key].ResourceVersion = @ + 1], err |-> Nil]

\* Status().Update(ctx, gateway) with the resourceVersion the object carries
StatusUpdate(w, gateway) ==
  LET key == KeyOf(gateway)
      stored == w.gatewayStore[key]
  IN IF stored = NotFound THEN [w |-> w, err |-> "not found"]
     ELSE IF stored.ResourceVersion # gateway.ResourceVersion THEN [w |-> w, err |-> "conflict"]
     ELSE IF stored.Status = gateway.Status THEN [w |-> w, err |-> Nil]
     ELSE [w |-> [w EXCEPT !.gatewayStore[key].Status = gateway.Status, !.gatewayStore[key].ResourceVersion = @ + 1], err |-> Nil]

\* the Gateway the store holds at the start: reconciled once, no service
\* registered
ReconciledGateway(key) ==
  readyStatus([services |-> [k \in ServiceKeys |-> NoEntry], now |-> 0],
              [Namespace |-> key.Namespace, Name |-> key.Name, Generation |-> 1, DeletionTimestamp |-> FALSE, Finalizers |-> {gatewayFinalizer},
               Spec |-> GatewaySpec(8080, SelectorEnabled, FALSE, ""), Status |-> EmptyStatus, ResourceVersion |-> 0])

InitWrite ==
  /\ gatewayStore = [k \in GatewayKeys |-> IF k \in OneGateway THEN ReconciledGateway(k) ELSE NotFound]
  /\ serviceStore = [k \in ServiceKeys |-> NotFound]
  /\ MCPServers = [k \in GatewayKeys |-> IF k \in OneGateway THEN Start(Configure(NewServer, ReconciledGateway(k))).s ELSE NoServer]
  /\ services = [k \in ServiceKeys |-> NoEntry]
  /\ gateways = OneGateway
  /\ now = 0
  /\ queue = {}
  /\ last = NoInvocation
  /\ running = [k \in GatewayKeys \cup ServiceKeys |-> Idle]
  /\ access = {}

\* the calls in flight whose projection is of another Registry than the
\* present one
Older(caller) == {c \in (GatewayKeys \cup ServiceKeys) \ {caller} : running[c].pc = "projected" /\ running[c].from # services}

\* Reconcile, lines 79-120: the fetch, the listener, the tracking
WriteFetch(key) ==
  LET gateway == gatewayStore[key]
  IN /\ running[key] = Idle
     /\ gateway # NotFound
     /\ Apply(AddGateway(ensureMCPServer(World, gateway).w, gateway))
     /\ running' = [running EXCEPT ![key] = [pc |-> "fetched", gateway |-> gateway]]
     /\ UNCHANGED <<queue, last, access>>

\* Reconcile, lines 122-143: the matching services are registered
WriteRegister(key) ==
  /\ running[key].pc = "fetched"
  /\ services' = registerMatching(services, GetMatchingServices(World, running[key].gateway, FALSE).items, now)
  /\ running' = [running EXCEPT ![key].pc = "toProject"]
  /\ UNCHANGED <<gatewayStore, serviceStore, MCPServers, gateways, now, queue, last, access>>

\* ServiceWatcher.Reconcile up to the status push
PushRegister(key) ==
  LET r == WatcherRegister(World, key, [getErr |-> FALSE])
  IN /\ key \in queue
     /\ running[key] = Idle
     /\ Apply(r.w)
     /\ UNCHANGED access
     /\ IF r.path = "registered"
        THEN /\ running' = [running EXCEPT ![key] = [pc |-> "pushing"]]
             /\ queue' = queue \ {key}
             /\ UNCHANGED last
        ELSE /\ queue' = IF r.result.err # Nil THEN queue ELSE queue \ {key}
             /\ last' = Invocation(WatcherOp, key, r)
             /\ UNCHANGED running

\* updateAllGatewayStatuses fetches the tracked Gateway
PushFetch(key, gateway) ==
  /\ running[key].pc = "pushing"
  /\ gateway \in gateways
  /\ gatewayStore[gateway] # NotFound
  /\ running' = [running EXCEPT ![key] = [pc |-> "toProject", gateway |-> gatewayStore[gateway]]]
  /\ UNCHANGED <<gatewayStore, serviceStore, MCPServers, services, gateways, now, queue, last, access>>

\* the projection of the Registry on the object fetched: with the conditions
\* and the address in Reconcile, the list alone in the Watcher
WriteProject(caller) ==
  /\ running[caller].pc = "toProject"
  /\ running' = [running EXCEPT ![caller] =
       [pc |-> "projected", gateway |-> @.gateway,
        object |-> IF caller \in GatewayKeys THEN readyStatus(World, @.gateway) ELSE UpdateRegistryStatus(services, @.gateway),
        from |-> services, older |-> Older(caller), outdated |-> FALSE]]
  /\ UNCHANGED <<gatewayStore, serviceStore, MCPServers, services, gateways, now, queue, last, access>>

\* the status write, and the return of the invocation; the Watcher logs a
\* failed write and returns no error
WriteStatus(caller) ==
  LET c == running[caller]
      u == StatusUpdate(World, c.object)
      done == IF caller \in GatewayKeys
              THEN IF u.err # Nil THEN Return(u.w, Result(FALSE, RequeueAfterStatusError, u.err), "statusError")
                                  ELSE Return(u.w, Result(FALSE, RequeueAfterSuccess, Nil), "ready")
              ELSE Return(u.w, Result(FALSE, 0, Nil), "registered")
  IN /\ c.pc = "projected"
     /\ gatewayStore[KeyOf(c.gateway)].ResourceVersion < MaxVersion
     /\ Apply(u.w)
     /\ last' = Invocation(IF caller \in GatewayKeys THEN GatewayOp ELSE WatcherOp, caller, done)
     /\ running' = [k \in GatewayKeys \cup ServiceKeys |->
                      IF k = caller THEN Idle
                      ELSE IF running[k].pc = "projected" /\ u.w.gatewayStore # gatewayStore /\ k \in c.older
                      THEN [running[k] EXCEPT !.outdated = TRUE]
                      ELSE running[k]]
     /\ UNCHANGED <<queue, access>>

NextWrite ==
  \/ \E key \in OneService : \E svc \in ServiceShapes(key) : CreateService(key, svc)
  \/ \E key \in OneService : \E svc \in ServiceShapes(key) : UpdateService(key, svc)
  \/ \E key \in OneService : DeleteService(key)
  \/ \E key \in OneGateway : WriteFetch(key)
  \/ \E key \in OneGateway : WriteRegister(key)
  \/ \E key \in OneService : PushRegister(key)
  \/ \E key \in OneService, gateway \in OneGateway : PushFetch(key, gateway)
  \/ \E caller \in OneGateway \cup OneService : WriteProject(caller)
  \/ \E caller \in OneGateway \cup OneService : WriteStatus(caller)

SpecWrite == InitWrite /\ [][NextWrite]_vars

(***************************************************************************)
(* The claims.                                                             *)
(***************************************************************************)
\* the stored Gateway carries the finalizer marker
HasFinalizer(obj) == obj # NotFound /\ gatewayFinalizer \in obj.Finalizers

\* the stored Gateway has a condition of the type with the status and reason
HasCondition(obj, type, status, reason) ==
  obj # NotFound /\ \E i \in 1..Len(obj.Status.Conditions) : obj.Status.Conditions[i].Type = type /\ obj.Status.Conditions[i].Status = status /\ obj.Status.Conditions[i].Reason = reason

\* the keys of the services a stored Gateway lists in its status
StatusKeys(obj) == IF obj = NotFound THEN {} ELSE {NamespacedName(e.Namespace, e.Name) : e \in obj.Status.MCPServices}

\* C1: a step that takes the finalizer marker off a stored Gateway (the marker
\* goes, or the object leaves the store with it) is a Reconcile of that
\* Gateway on the deletion path (the deletion timestamp was set), and when it
\* ends the cleanup has run: no Server is held for the Gateway and the
\* Watcher does not track it.
C1_FinalizerOnlyAfterCleanup ==
  [][\A key \in GatewayKeys :
       (HasFinalizer(gatewayStore[key]) /\ ~HasFinalizer(gatewayStore'[key]))
         => /\ gatewayStore[key].DeletionTimestamp
            /\ last' = [op |-> GatewayOp, key |-> key, path |-> "finalizerRemoved", result |-> Result(FALSE, 0, Nil)]
            /\ MCPServers'[key] = NoServer
            /\ key \notin gateways']_vars

\* C1, its case: a Reconcile has removed the finalizer and the Gateway has left the store
C1_Witness == last.op = GatewayOp /\ last.path = "finalizerRemoved" /\ gatewayStore[last.key] = NotFound

\* C2: a Server comes to exist for a Gateway only in a step that found the
\* Gateway stored with its finalizer and not marked for deletion; the
\* invocation that adds the finalizer leaves the Servers as they were, stores
\* the finalizer and returns Requeue; and after a failed attempt to store the
\* finalizer no Server exists for that Gateway.
C2_ListenerOnlyAfterFinalizer ==
  [][\A key \in GatewayKeys :
       /\ (MCPServers[key] = NoServer /\ MCPServers'[key] # NoServer)
            => (HasFinalizer(gatewayStore[key]) /\ ~gatewayStore[key].DeletionTimestamp)
       /\ (last'.op = GatewayOp /\ last'.key = key /\ last'.path = "finalizerAdded")
            => (MCPServers' = MCPServers /\ MCPServers'[key] = NoServer /\ HasFinalizer(gatewayStore'[key]) /\ last'.result = Result(TRUE, 0, Nil))
       /\ (last'.op = GatewayOp /\ last'.key = key /\ last'.path = "addFinalizerError")
            => (MCPServers'[key] = NoServer /\ last'.result.err # Nil)]_vars

\* C2, its case: the invocation that added the finalizer has returned and a
\* Server of this Gateway's key does not exist yet
C2_Witness == last.op = GatewayOp /\ last.path = "finalizerAdded" /\ HasFinalizer(gatewayStore[last.key]) /\ MCPServers[last.key] = NoServer

\* C3: when the Watcher's reconciliation of a service that it fetched without
\* the enablement label has completed, the service is not in the Registry and
\* no tracked Gateway lists it in its stored status.
C3_DisabledServiceLeavesStatus ==
  (last.op = WatcherOp /\ last.path = "notEnabled")
    => /\ services[last.key] = NoEntry
       /\ \A g \in gateways : last.key \notin StatusKeys(gatewayStore[g])

\* C4: after a Reconcile that ran to full success for a Gateway whose
\* selector matches no stored service, while every Registry entry is a
\* stored, enabled service, the stored status has an empty service list and
\* a Ready=True condition whose message notes 0 services.
C4_StatusOnlyMatchingServices ==
  (/\ last.op = GatewayOp /\ last.path = "ready"
   /\ \A s \in ServiceKeys : serviceStore[s] # NotFound => ~SelectorMatches(gatewayStore[last.key].Spec.ServiceSelector, serviceStore[s].Labels)
   /\ \A s \in ServiceKeys : services[s] # NoEntry => (serviceStore[s] # NotFound /\ IsMCPEnabledService(serviceStore[s])))
    => /\ gatewayStore[last.key].Status.MCPServices = {}
       /\ \E i \in 1..Len(gatewayStore[last.key].Status.Conditions) :
            gatewayStore[last.key].Status.Conditions[i].Type = conditionTypeReady /\ gatewayStore[last.key].Status.Conditions[i].Status = ConditionTrue /\ gatewayStore[last.key].Status.Conditions[i].Message = ReadyMessage(0)

\* C5: two Reconciles of a Gateway that run to full success one after the
\* other, with no change of the Gateway or of the services between them,
\* leave the same stored status.
C5_ReconcileIdempotent ==
  [][(/\ last.op = GatewayOp /\ last.path = "ready"
      /\ last'.op = GatewayOp /\ last'.path = "ready" /\ last'.key = last.key)
       => gatewayStore'[last.key].Status = gatewayStore[last.key].Status]_vars

\* C6: after a periodic Reconcile of a Gateway that ran to full success, with
\* no Watcher request pending, the Registry holds no service that is gone
\* from the store or has lost its enablement label, and no stored Gateway
\* status lists one.
C6_ResyncHealsMissedEvents ==
  (last.op = GatewayOp /\ last.path = "ready" /\ queue = {})
    => \A s \in ServiceKeys :
         (serviceStore[s] = NotFound \/ ~IsMCPEnabledService(serviceStore[s]))
           => (services[s] = NoEntry /\ s \notin StatusKeys(gatewayStore[last.key]))

\* the Gateway is stored, not marked for deletion, and its selector is valid
Live(key) == gatewayStore[key] # NotFound /\ ~gatewayStore[key].DeletionTimestamp /\ SelectorValid(gatewayStore[key].Spec.ServiceSelector)

\* in the state w, the stored status of the Gateway lists exactly the Registry's entries
ConsistentIn(w, key) == w.gatewayStore[key] # NotFound /\ w.gatewayStore[key].Status.MCPServices = {MCPServiceInfo(e) : e \in ListServices(w.services)}

C8_NoOverlappingMapWrite == \A a \in access : a.kind = "write" => access = {a}

\* C9: a Watcher reconciliation whose registration failed returns no error
\* and its request is not retried.
C9_RegisterFailureNotReturned ==
  (last.op = WatcherOp /\ last.path = "registerError")
    => (last.result.err = Nil /\ last.key \notin queue)

\* C10: after a Reconcile that ended on a listener failure or on a selector
\* failure, no service was registered by it, the error is returned with the
\* 30 second retry, and the stored status of the Gateway has the condition
\* Ready=False with the reason ServerError, respectively ConfigurationError.
C10_FailurePublished ==
  /\ (last.op = GatewayOp /\ last.path = "serverError")
       => (last.result.err # Nil /\ last.result.RequeueAfter = RequeueAfterError /\ HasCondition(gatewayStore[last.key], conditionTypeReady, ConditionFalse, reasonServerError))
  /\ (last.op = GatewayOp /\ last.path = "configError")
       => (last.result.err # Nil /\ last.result.RequeueAfter = RequeueAfterError /\ HasCondition(gatewayStore[last.key], conditionTypeReady, ConditionFalse, reasonConfigError))

\* C11: a stored Gateway whose spec has enableTls set and no TLS secret
\* reference never carries the condition Ready=True.
C11_TLSWithoutSecretNotReady ==
  \A key \in GatewayKeys :
    (gatewayStore[key] # NotFound /\ gatewayStore[key].Spec.EnableTLS /\ gatewayStore[key].Spec.TLSSecretRef = "")
      => ~HasCondition(gatewayStore[key], conditionTypeReady, ConditionTrue, reasonReady)

\* the service has no annotation: its map is nil or holds no key
LacksAnnotations(svc) == svc.Annotations = NilMap \/ \A k \in DOMAIN svc.Annotations : svc.Annotations[k] = Absent

\* the identities the Registry holds an entry for
Registered == {k \in ServiceKeys : services[k] # NoEntry}

\* C12: a RegisterService call with a service that has no annotation fails
\* and leaves the Registry as it was.
C12_NoAnnotationRejected ==
  [][(last'.op = RegisterOp /\ LacksAnnotations(last'.result.svc))
       => (last'.result.err # Nil /\ services' = services)]_vars

\* C13: after a successful RegisterService the stored endpoint is
\* /mcp/{namespace}/{name} when the service has no endpoint annotation, and
\* the value of the annotation when it has one.
C13_EndpointDefaultOrAnnotation ==
  (last.op = RegisterOp /\ last.result.err = Nil)
    => LET svc == last.result.svc
       IN services[last.key].Endpoint =
            IF svc.Annotations[MCPEndpointAnnotation] = Absent
            THEN <<"/mcp/", svc.Namespace, "/", svc.Name>>
            ELSE <<svc.Annotations[MCPEndpointAnnotation]>>

C13_Witness ==
  /\ last.op = RegisterOp /\ last.result.err = Nil
  /\ last.result.svc.Annotations[MCPEndpointAnnotation] = Absent
  /\ \E k \in Registered : services[k].Endpoint = <<"/custom">>

C15_DeregisterReportsRemoval ==
  [][last'.op = DeregisterOp
       => /\ last'.result.removed = (services[last'.key] # NoEntry)
          /\ services' = [services EXCEPT ![last'.key] = NoEntry]]_vars

C15_Witness ==
  /\ last.op = DeregisterOp /\ ~last.result.removed
  /\ Registered # {} /\ last.key \notin Registered

\* C16: UpdateRegistryStatus leaves on the Gateway object exactly one entry
\* per identity in the Registry, equal to the entry the Registry holds,
\* whatever the list held before, and changes nothing else of the object.
C16_ProjectionMirrorsRegistry ==
  last.op = ProjectOp
    => /\ last.result.gateway.Status.MCPServices = {MCPServiceInfo(services[k]) : k \in Registered}
       /\ Cardinality(last.result.gateway.Status.MCPServices) = Cardinality(Registered)
       /\ [last.result.gateway EXCEPT !.Status.MCPServices = last.result.prior] = [Gateway(last.key, last.result.gateway.Spec) EXCEPT !.Status.MCPServices = last.result.prior]

C16_Witness ==
  /\ last.op = ProjectOp /\ last.result.prior # {}
  /\ Cardinality(Registered) = 1
  /\ Cardinality(last.result.gateway.Status.MCPServices) = 1
  /\ last.result.prior \cap last.result.gateway.Status.MCPServices = {}

\* C17: the Registry holds one entry per identity, under its own name and
\* namespace, and after a successful RegisterService GetService of the
\* identity returns the role, endpoint and availability of that call alone,
\* whatever entry the call found.
C17_LastWriteWins ==
  /\ \A k \in Registered : KeyOf(services[k]) = k
  /\ Cardinality(ListServices(services)) = Cardinality(Registered)
  /\ (last.op = RegisterOp /\ last.result.err = Nil)
       => LET svc == last.result.svc
              got == GetService(services, last.key)
          IN /\ got.exists
             /\ got.svc.Type = last.result.serviceType
             /\ got.svc.Endpoint = (IF svc.Annotations[MCPEndpointAnnotation] = Absent THEN DefaultEndpoint(svc) ELSE <<svc.Annotations[MCPEndpointAnnotation]>>)
             /\ got.svc.Status = (IF svc.Type = ServiceTypeClusterIP /\ svc.Ports > 0 THEN ServiceStatusAvailable ELSE ServiceStatusPending)

C17_Witness ==
  /\ last.op = RegisterOp /\ last.result.err = Nil
  /\ last.result.prior # NoEntry
  /\ last.result.prior.Type # services[last.key].Type
  /\ last.result.prior.Endpoint # services[last.key].Endpoint
  /\ last.result.prior.Status # services[last.key].Status

\* the settings Configure copies from a Gateway spec
Configured(s, key, spec) == s.port = spec.MCPPort /\ s.enableTLS = spec.EnableTLS /\ s.tlsSecretName = spec.TLSSecretRef /\ s.gatewayRef = key

\* C18: a Start on a listener that is running fails with the error "server
\* already started" and leaves the listener as it was: still running, with
\* the http server it had and no new one.
C18_StartTwiceFails ==
  (last.op = StartOp /\ last.result.prior.started)
    => /\ last.result.ret = "server already started"
       /\ MCPServers[last.key] = last.result.prior
       /\ IsRunning(MCPServers[last.key])

C18_Witness ==
  /\ last.op = StartOp /\ last.result.prior.started
  /\ MCPServers[last.key].httpServer.Addr # Addr(MCPServers[last.key].port)

\* C19: a Stop on a listener that was never started returns no error and
\* changes nothing; after any Stop the listener is not running; a listener
\* that is not running becomes running only in a Start (called directly or
\* by ensureMCPServer), and a Start on a listener that is not running
\* succeeds; and a listener that ensureMCPServer leaves running carries the
\* settings of the Gateway it was ensured for.
C19_ListenerLifecycle ==
  [][/\ (last'.op = StopOp /\ last'.result.prior.httpServer = NoHTTPServer)
          => (last'.result.ret = Nil /\ MCPServers'[last'.key] = last'.result.prior)
     /\ last'.op = StopOp => ~IsRunning(MCPServers'[last'.key])
     /\ \A key \in GatewayKeys :
          ((MCPServers[key] = NoServer \/ ~IsRunning(MCPServers[key])) /\ MCPServers'[key] # NoServer /\ IsRunning(MCPServers'[key]))
            => (last'.op \in {StartOp, EnsureOp} /\ last'.key = key)
     /\ (last'.op = StartOp /\ ~last'.result.prior.started)
          => (last'.result.ret = Nil /\ IsRunning(MCPServers'[last'.key]))
     /\ last'.op = EnsureOp
          => (IsRunning(MCPServers'[last'.key]) /\ Configured(MCPServers'[last'.key], last'.key, last'.result.spec))]_vars

C19_Witness ==
  /\ last.op = StartOp /\ last.result.ret = Nil
  /\ last.result.prior.httpServer # NoHTTPServer /\ ~last.result.prior.started
  /\ IsRunning(MCPServers[last.key])

\* C20: a Configure changes neither the started flag of the listener nor the
\* http server it runs (the address it is bound to), and repeating it with
\* the same Gateway changes nothing more; the port it sets is the one the
\* next successful Start binds.
C20_ConfigureLeavesListener ==
  /\ last.op = ConfigureOp
       => /\ MCPServers[last.key].started = last.result.prior.started
          /\ MCPServers[last.key].httpServer = last.result.prior.httpServer
          /\ Configured(MCPServers[last.key], last.key, last.result.spec)
          /\ Configure(MCPServers[last.key], Gateway(last.key, last.result.spec)) = MCPServers[last.key]
  /\ (last.op = StartOp /\ last.result.ret = Nil)
       => MCPServers[last.key].httpServer = [Addr |-> <<":", ToString(last.result.prior.port)>>]

C20_Witness ==
  /\ last.op = ConfigureOp /\ last.result.prior.started
  /\ last.result.spec.MCPPort # last.result.prior.port
  /\ IsRunning(MCPServers[last.key])
  /\ MCPServers[last.key].httpServer.Addr = Addr(last.result.prior.port)

\* the stored Gateway has a condition of the type with the status, the reason
\* and the message
HasConditionMessage(obj, type, status, reason, message) ==
  obj # NotFound /\ \E i \in 1..Len(obj.Status.Conditions) : obj.Status.Conditions[i].Type = type /\ obj.Status.Conditions[i].Status = status /\ obj.Status.Conditions[i].Reason = reason /\ obj.Status.Conditions[i].Message = message

\* C21: a Reconcile that ran to full success leaves in the store the address
\* ":" and the mcpPort, Ready=True/GatewayReady with a message that counts the
\* entries of the stored service list, Available=True/GatewayConfigured, and
\* returns no error with the 5 minute revisit; a Reconcile whose status write
\* failed returns the error with the 1 minute retry and leaves the stored
\* Gateways as they were.
C21_SuccessPublishesStatus ==
  [][/\ (last'.op = GatewayOp /\ last'.path = "ready")
          => LET obj == gatewayStore'[last'.key]
             IN /\ obj # NotFound
                /\ obj.Status.Address = <<":", ToString(obj.Spec.MCPPort)>>
                /\ HasConditionMessage(obj, conditionTypeReady, ConditionTrue, reasonReady, <<"Gateway is ready with ", ToString(Cardinality(obj.Status.MCPServices)), " services">>)
                /\ HasConditionMessage(obj, conditionTypeAvailable, ConditionTrue, reasonConfigured, <<"Gateway is available">>)
                /\ last'.result = Result(FALSE, RequeueAfterSuccess, Nil)
     /\ (last'.op = GatewayOp /\ last'.path = "statusError")
          => /\ gatewayStore' = gatewayStore
             /\ last'.result.err # Nil
             /\ last'.result.RequeueAfter = RequeueAfterStatusError]_vars

C21_Witness ==
  /\ last.op = GatewayOp /\ last.path = "ready"
  /\ gatewayStore[last.key].Status.Address = <<":", "8081">>
  /\ Cardinality(gatewayStore[last.key].Status.MCPServices) = 1

\* C22: when a Gateway marked for deletion leaves the store, no Server is
\* held for it and no service that matches its selector is in the Registry.
C22_DeletionDeregistersServices ==
  [][\A key \in GatewayKeys :
       (gatewayStore[key] # NotFound /\ gatewayStore[key].DeletionTimestamp /\ gatewayStore'[key] = NotFound)
         => /\ MCPServers'[key] = NoServer
            /\ \A s \in ServiceKeys :
                 (serviceStore[s] # NotFound /\ SelectorMatches(gatewayStore[key].Spec.ServiceSelector, serviceStore[s].Labels))
                   => services'[s] = NoEntry]_vars

\* C23: after a Reconcile that ran to full success, every stored service
\* that matches the selector of the Gateway, is labelled mcp-enabled=true or
\* mcp-enabled=yes and has annotations is in the Registry and in the stored
\* status of the Gateway.
C23_SelectorDecidesRegistration ==
  (last.op = GatewayOp /\ last.path = "ready")
    => \A s \in ServiceKeys :
         (/\ serviceStore[s] # NotFound
          /\ SelectorMatches(gatewayStore[last.key].Spec.ServiceSelector, serviceStore[s].Labels)
          /\ serviceStore[s].Labels[MCPEnabledLabel] \in {"true", "yes"}
          /\ serviceStore[s].Annotations # NilMap)
           => (services[s] # NoEntry /\ s \in StatusKeys(gatewayStore[last.key]))

\* the paths of Reconcile that observed the Gateway as not found or as marked
\* for deletion
GonePaths == {"notFound", "finalizerRemoved", "removeFinalizerError", "deleted"}

\* C24: a Server that is running keeps the http server it has as long as its
\* handle is held (no second one is started for it), and a running Server has
\* one; after a Reconcile that observed the Gateway as not found or as marked
\* for deletion no Server is held for it and the Watcher does not track it,
\* and the not-found invocation returns no error and no requeue.
C24_OneListenerPerGateway ==
  [][/\ \A key \in GatewayKeys :
          /\ (MCPServers[key] # NoServer /\ MCPServers[key].started /\ MCPServers'[key] # NoServer)
               => MCPServers'[key].httpServer = MCPServers[key].httpServer
          /\ (MCPServers'[key] # NoServer /\ MCPServers'[key].started) => MCPServers'[key].httpServer # NoHTTPServer
     /\ (last'.op = GatewayOp /\ last'.path \in GonePaths)
          => (MCPServers'[last'.key] = NoServer /\ last'.key \notin gateways')
     /\ (last'.op = GatewayOp /\ last'.path = "notFound")
          => last'.result = Result(FALSE, 0, Nil)]_vars

C24_Witness ==
  /\ last.op = GatewayOp /\ last.path = "removeFinalizerError"
  /\ gatewayStore[last.key] # NotFound
  /\ MCPServers[last.key] = NoServer /\ last.key \notin gateways

\* every store call of a Reconcile succeeds but the write of the finalizer
ReconcileUpdateFails == [getErr |-> FALSE, updateErr |-> TRUE, listErr |-> FALSE, statusErr |-> FALSE]

\* C25: from every state in which a Gateway is marked for deletion and no
\* invocation is in flight for it, the next Reconcile whose store calls
\* succeed cleans up, removes the finalizer and the Gateway leaves the store;
\* one whose finalizer write fails returns the error, has cleaned up all the
\* same, and leaves the Gateway marked with its finalizer, so that the
\* Reconcile after it is in the same position.
C25_DeletionCompletes ==
  \A key \in GatewayKeys :
    (gatewayStore[key] # NotFound /\ gatewayStore[key].DeletionTimestamp /\ running[key] = Idle)
      => LET ok == Reconcile(World, key, ReconcileOK)
             failed == Reconcile(World, key, ReconcileUpdateFails)
         IN /\ ok.path = "finalizerRemoved" /\ ok.result = Result(FALSE, 0, Nil)
            /\ ok.w.gatewayStore[key] = NotFound
            /\ ok.w.MCPServers[key] = NoServer /\ key \notin ok.w.gateways
            /\ failed.result.err # Nil
            /\ failed.w.gatewayStore[key] = gatewayStore[key]
            /\ failed.w.MCPServers[key] = NoServer /\ key \notin failed.w.gateways
            /\ Reconcile(failed.w, key, ReconcileOK).w.gatewayStore[key] = NotFound

\* an invocation that was in flight when the Gateway was marked has returned,
\* and the Gateway is still stored with its finalizer
C25_Witness ==
  /\ last.op = GatewayOp /\ last.path \in {"statusError", "ready"}
  /\ gatewayStore[last.key] # NotFound /\ gatewayStore[last.key].DeletionTimestamp
  /\ HasFinalizer(gatewayStore[last.key])
  /\ running[last.key] = Idle

\* C26: after a Reconcile that ran to full success, every stored service that
\* matches the selector of the Gateway, is labelled mcp-enabled=true and has
\* annotations is in the Registry and in the stored status of the Gateway,
\* though the Watcher processed no event; a matching service without
\* annotations is left out and the invocation succeeds all the same.
C26_ReconcileRegistersMatching ==
  (last.op = GatewayOp /\ last.path = "ready")
    => /\ last.result.err = Nil
       /\ \A s \in ServiceKeys :
            (/\ serviceStore[s] # NotFound
             /\ SelectorMatches(gatewayStore[last.key].Spec.ServiceSelector, serviceStore[s].Labels)
             /\ serviceStore[s].Labels[MCPEnabledLabel] = "true"
             /\ serviceStore[s].Annotations # NilMap)
              => (services[s] # NoEntry /\ s \in StatusKeys(gatewayStore[last.key]))

\* one matching service could not be registered, the other was
C26_Witness ==
  /\ last.op = GatewayOp /\ last.path = "ready"
  /\ \E s, t \in ServiceKeys :
       /\ serviceStore[s] # NotFound /\ serviceStore[s].Annotations = NilMap
       /\ SelectorMatches(gatewayStore[last.key].Spec.ServiceSelector, serviceStore[s].Labels)
       /\ services[s] = NoEntry
       /\ serviceStore[t] # NotFound /\ serviceStore[t].Annotations # NilMap
       /\ services[t] # NoEntry /\ t \in StatusKeys(gatewayStore[last.key])

\* C27: a Watcher reconciliation that found the service gone, or fetched it
\* without the label mcp-enabled=true, returns no error and no requeue and
\* leaves the Registry without an entry for the identity and otherwise as it
\* was; one whose fetch failed otherwise returns the error and leaves the
\* Registry as it was.
C27_WatcherDeregisters ==
  [][/\ (last'.op = WatcherOp /\ last'.path \in {"notFound", "notEnabled"})
          => /\ last'.result = Result(FALSE, 0, Nil)
             /\ services' = [services EXCEPT ![last'.key] = NoEntry]
             /\ (serviceStore[last'.key] = NotFound) = (last'.path = "notFound")
     /\ (last'.op = WatcherOp /\ last'.path = "getError")
          => (last'.result.err # Nil /\ services' = services)]_vars

C27_Witness ==
  /\ last.op = WatcherOp /\ last.path = "notEnabled"
  /\ serviceStore[last.key] # NotFound /\ serviceStore[last.key].Labels[MCPEnabledLabel] = Absent
  /\ \E g \in GatewayKeys : last.key \in StatusKeys(gatewayStore[g])

\* the stored object carries the label mcp-enabled=true
Enabled(obj) == obj # NotFound /\ obj.Labels[MCPEnabledLabel] = "true"

\* C28: an event of a service adds a reconcile request for it exactly when,
\* for a creation or a deletion, the object carries mcp-enabled=true and, for
\* an update, the old or the new version does; an event of a service enabled
\* in neither version leaves the requests as they were.
C28_EventFilter ==
  [][\A key \in ServiceKeys :
       serviceStore'[key] # serviceStore[key]
         => queue' = IF Enabled(serviceStore[key]) \/ Enabled(serviceStore'[key]) THEN queue \cup {key} ELSE queue]_vars

\* the update that took the label off a service has left a request for it
C28_Witness ==
  /\ last = NoInvocation
  /\ \E key \in queue : serviceStore[key] # NotFound /\ ~Enabled(serviceStore[key]) /\ services[key] # NoEntry

\* the role the annotation mcp.fetchfy.ai/type of a stored service stands for
RoleOf(obj) == IF obj.Annotations # NilMap /\ obj.Annotations[MCPTypeAnnotation] = "agent" THEN "agent" ELSE "tool"

\* C29: for every stored service the Watcher and the Reconciler compute the
\* same role, agent when the annotation mcp.fetchfy.ai/type is "agent" and
\* tool otherwise; and the entry either handler has just registered for a
\* stored service carries that role.
C29_SameRole ==
  /\ \A k \in ServiceKeys :
       serviceStore[k] # NotFound
         => (WatcherServiceType(serviceStore[k]) = RoleOf(serviceStore[k]) /\ ReconcilerServiceType(serviceStore[k]) = RoleOf(serviceStore[k]))
  /\ (last.op = WatcherOp /\ last.path = "registered")
       => services[last.key].Type = RoleOf(serviceStore[last.key])
  /\ (last.op = GatewayOp /\ last.path = "ready")
       => \A s \in ServiceKeys :
            (Enabled(serviceStore[s]) /\ serviceStore[s].Annotations # NilMap /\ SelectorMatches(gatewayStore[last.key].Spec.ServiceSelector, serviceStore[s].Labels))
              => (services[s] # NoEntry /\ services[s].Type = RoleOf(serviceStore[s]))

\* the Reconciler registered an agent after the Watcher had registered the
\* service under another annotation as a tool
C29_Witness ==
  /\ last.op = GatewayOp /\ last.path = "ready"
  /\ \E s \in ServiceKeys : s \in queue /\ Enabled(serviceStore[s]) /\ services[s] # NoEntry /\ services[s].Type = "agent"

\* C30: from every state with a request pending for a service, a Watcher
\* reconciliation that registers the service returns no error, whatever
\* fetches and status writes of its push fail, and leaves every tracked
\* Gateway that is stored and whose fetch and write did not fail with a
\* stored service list equal to the projection of the Registry.
C30_PushReachesEveryGateway ==
  \A s \in queue : \A io \in WatcherIO(gateways) :
    LET r == WatcherReconcile(World, s, io)
    IN r.path = "registered"
         => /\ r.result = Result(FALSE, 0, Nil)
            /\ r.w.services[s] # NoEntry
            /\ \A g \in gateways :
                 (gatewayStore[g] # NotFound /\ g \notin io.pushGetErr /\ g \notin io.pushStatusErr)
                   => r.w.gatewayStore[g].Status.MCPServices = {MCPServiceInfo(r.w.services[k]) : k \in {x \in ServiceKeys : r.w.services[x] # NoEntry}}

\* a push refreshed one tracked Gateway and failed for the other
C30_Witness ==
  /\ last.op = WatcherOp /\ last.path = "registered"
  /\ \E g, h \in gateways :
       /\ gatewayStore[g] # NotFound /\ gatewayStore[h] # NotFound
       /\ last.key \in StatusKeys(gatewayStore[g])
       /\ last.key \notin StatusKeys(gatewayStore[h])

\* the positions of the conditions of a type in a condition list
Positions(conditions, type) == {i \in 1..Len(conditions) : conditions[i].Type = type}

\* C31: a call of updateGatewayCondition leaves the list as it was when it
\* holds a condition of the type with the same status, reason and message;
\* otherwise it puts the new condition where the one of that type stood, or
\* at the end when there was none, and leaves the conditions of other types
\* as and where they were; no list holds two conditions of one type.
C31_ConditionUpdate ==
  /\ \A key \in GatewayKeys : gatewayStore[key] # NotFound
       => \A type \in ConditionTypes : Cardinality(Positions(gatewayStore[key].Status.Conditions, type)) <= 1
  /\ last.op = ConditionOp
       => LET old == last.result.prior.Status.Conditions
              new == gatewayStore[last.key].Status.Conditions
              at == Positions(old, last.result.conditionType)
              condition == [Type |-> last.result.conditionType, Status |-> last.result.status, LastTransitionTime |-> last.result.t,
                            Reason |-> last.result.reason, Message |-> last.result.message, ObservedGeneration |-> last.result.prior.Generation]
          IN /\ (\E i \in at : old[i].Status = last.result.status /\ old[i].Reason = last.result.reason /\ old[i].Message = last.result.message)
                  => new = old
             /\ (at # {} /\ \A i \in at : ~(old[i].Status = last.result.status /\ old[i].Reason = last.result.reason /\ old[i].Message = last.result.message))
                  => (Len(new) = Len(old) /\ \A i \in 1..Len(old) : new[i] = IF i \in at THEN condition ELSE old[i])
             /\ at = {} => new = old \o <<condition>>
             /\ [gatewayStore[last.key] EXCEPT !.Status.Conditions = old] = last.result.prior

\* a condition was replaced in place, in front of one of another type
C31_Witness ==
  /\ last.op = ConditionOp
  /\ Len(last.result.prior.Status.Conditions) = 2
  /\ last.result.prior.Status.Conditions[1].Type = last.result.conditionType
  /\ gatewayStore[last.key].Status.Conditions[1] # last.result.prior.Status.Conditions[1]
  /\ gatewayStore[last.key].Status.Conditions[1].LastTransitionTime # gatewayStore[last.key].Status.Conditions[2].LastTransitionTime

\* C33: after a Reconcile that ran to full success, the stored conditions
\* Ready and Available carry the generation of the stored Gateway as their
\* observedGeneration.
C33_ObservedGenerationCurrent ==
  (last.op = GatewayOp /\ last.path = "ready")
    => \A i \in 1..Len(gatewayStore[last.key].Status.Conditions) :
         gatewayStore[last.key].Status.Conditions[i].Type \in {conditionTypeReady, conditionTypeAvailable}
           => gatewayStore[last.key].Status.Conditions[i].ObservedGeneration = gatewayStore[last.key].Generation

\* C34: after a Reconcile that ran to full success, the stored address is the
\* address the http server of the Gateway's running listener was created
\* with.
C34_AddressIsListenerPort ==
  (last.op = GatewayOp /\ last.path = "ready")
    => /\ MCPServers[last.key] # NoServer
       /\ IsRunning(MCPServers[last.key])
       /\ gatewayStore[last.key].Status.Address = MCPServers[last.key].httpServer.Addr

\* C36: in every stored Gateway status with the condition Ready=True, the
\* message of that condition counts the entries of the status service list.
C36_ReadyMessageCountsList ==
  \A key \in GatewayKeys :
    gatewayStore[key] # NotFound
      => \A i \in 1..Len(gatewayStore[key].Status.Conditions) :
           (gatewayStore[key].Status.Conditions[i].Type = conditionTypeReady /\ gatewayStore[key].Status.Conditions[i].Status = ConditionTrue)
             => gatewayStore[key].Status.Conditions[i].Message = ReadyMessage(Cardinality(gatewayStore[key].Status.MCPServices))

\* C38: when a Watcher reconciliation that fetched the service, or found it
\* gone, has completed, a Registry entry of the identity is the one
\* RegisterService builds from the stored service: the service is stored
\* with annotations, and the entry has its role, its endpoint and its
\* availability.
C38_EntryReflectsService ==
  (last.op = WatcherOp /\ last.path \in {"notFound", "notEnabled", "registerError", "registered"} /\ services[last.key] # NoEntry)
    => /\ serviceStore[last.key] # NotFound
       /\ serviceStore[last.key].Annotations # NilMap
       /\ LET r == RegisterService(services, serviceStore[last.key], WatcherServiceType(serviceStore[last.key]), services[last.key].UpdatedAt)
          IN r.err = Nil /\ r.services[last.key] = services[last.key]

C39_EnsureNeverFails ==
  /\ last.op = GatewayOp => last.path # "serverError"
  /\ \A key \in GatewayKeys :
       gatewayStore[key] # NotFound
         => /\ ensureMCPServer(World, gatewayStore[key]).err = Nil
            /\ IsRunning(ensureMCPServer(World, gatewayStore[key]).w.MCPServers[key])
            /\ (MCPServers[key] # NoServer /\ IsRunning(MCPServers[key]))
                 => ensureMCPServer(World, gatewayStore[key]).w.MCPServers[key].httpServer = MCPServers[key].httpServer

\* a Reconcile has ensured a listener that was running: the listener still
\* has the address of the port the Gateway had before
C39_Witness ==
  /\ last.op = GatewayOp /\ last.path = "ready"
  /\ IsRunning(MCPServers[last.key])
  /\ MCPServers[last.key].httpServer.Addr # Addr(MCPServers[last.key].port)

\* C40 as stated: in every reachable state the Reconciler holds a listener
\* handle for each identity the Watcher tracks.
C40_TrackedHasListenerAlways ==
  \A key \in gateways : MCPServers[key] # NoServer

\* C40: whenever no Reconcile of a Gateway identity is in flight, the Watcher
\* tracks the identity only if the Reconciler holds a listener handle for
\* it.
C40_TrackedHasListener ==
  \A key \in GatewayKeys : (key \in gateways /\ running[key] = Idle) => MCPServers[key] # NoServer

\* a Gateway is tracked with a running listener, no Reconcile of it in
\* flight, while the Watcher ranges over the tracked Gateways
C40_Witness ==
  \E key \in gateways :
    /\ running[key] = Idle
    /\ MCPServers[key] # NoServer /\ IsRunning(MCPServers[key])
    /\ \E s \in ServiceKeys : running[s] # Idle

C37_StaleWriteRejected ==
  [][\A g \in OneGateway :
       /\ \A c \in OneGateway \cup OneService :
            (running[c].pc = "projected" /\ running'[c] = Idle /\ running[c].gateway.ResourceVersion # gatewayStore[g].ResourceVersion)
              => gatewayStore' = gatewayStore
       /\ gatewayStore'[g] # gatewayStore[g]
            => \E c \in OneGateway \cup OneService :
                 /\ running[c].pc = "projected" /\ running'[c] = Idle
                 /\ running[c].gateway = gatewayStore[g]
                 /\ ~running[c].outdated
                 /\ gatewayStore'[g].Status = running[c].object.Status
                 /\ gatewayStore'[g].ResourceVersion = gatewayStore[g].ResourceVersion + 1]_vars

\* the status write of a Reconcile was refused: a push of the Watcher, with
\* the service registered meanwhile, had changed the Gateway it had fetched
C37_Witness ==
  /\ last.op = GatewayOp /\ last.path = "statusError" /\ last.result.err = "conflict"
  /\ gatewayStore[last.key].ResourceVersion > 0
  /\ gatewayStore[last.key].Status.MCPServices # {}

====
